---- MODULE Spec2Model ----
(***************************************************************************)
(* Verification model of rarexsec: the sample catalog (Hub), its weighted  *)
(* training/analysis partition builder and the per-row annotation columns. *)
(*                                                                         *)
(* Numbers.  Event keys are 64-bit words; they are kept as three limbs     *)
(* <<bits 42..63, bits 21..41, bits 0..20>>.  Sampling keys ln(u)/w and    *)
(* the rescale factors are exact rationals [n, d] with d > 0 (rounding of  *)
(* the double arithmetic is not modelled).  std::hash is implementation    *)
(* defined, so the variate of a key is an input: neg_log_u[k] is -ln(u) of *)
(* key k in model units, and 0 stands for u == 1.0.                        *)
(*                                                                         *)
(* Columns.  A lazy view is modelled by the functions its column lambdas   *)
(* compute; consumers of is_training / w_analysis read the definitions     *)
(* made by Hub::sample.                                                    *)
(***************************************************************************)
EXTENDS Integers, Sequences, FiniteSets, TLC

\* ------------------------------------------------------------------ bounds
\* rows in the nominal view of the first simulation sample
MaxRows == 2
\* training quotas (scaled down from the 50000 of Hub.cxx:25-26)
kTrainingNSignal == 1
kTrainingNBackground == 1

\* --------------------------------------------------------------- inputs
\* (run, sub, evt) triples that occur in the input files
EventIds == {<<1, 0, 1>>, <<1, 0, 2>>}
\* values of w_nominal on simulation rows: Processor clamps to >= 0
Weights == {0, 1, 2}
\* values of -ln(u): 0 is u == 1.0
LnValues == {0, 1}

\* ------------------------------------------------------------- rationals
Rat(n, d) == [n |-> n, d |-> d]
RatOne == Rat(1, 1)
RatLess(x, y) == x.n * y.d < y.n * x.d
RatEq(x, y) == x.n * y.d = y.n * x.d
RatAdd(x, y) == Rat(x.n * y.d + y.n * x.d, x.d * y.d)
RatMul(x, y) == Rat(x.n * y.n, x.d * y.d)

\* ------------------------------------------------------------ event keys
RECURSIVE BitXor(_, _)
BitXor(a, b) ==
    IF a = 0 THEN b
    ELSE IF b = 0 THEN a
    ELSE (((a % 2) + (b % 2)) % 2) + (2 * BitXor(a \div 2, b \div 2))

\* pieces of static_cast<uint32_t>(x), for x of either sign
Low21(x) == x % (2^21)
Low22(x) == x % (2^22)
High11(x) == (x \div (2^21)) % (2^11)

\* a key that shifts the event number as it shifts the subrun
make_event_key_EvtShifted(run, sub, evt) ==
    << BitXor(Low22(run), BitXor(High11(sub), High11(evt))),
       BitXor(Low21(sub), Low21(evt)),
       0 >>

\* (r << 42) ^ (s << 21) ^ e on 64 bits, as limbs <<42..63, 21..41, 0..20>>
make_event_key(run, sub, evt) ==
    << BitXor(Low22(run), High11(sub)),
       BitXor(Low21(sub), High11(evt)),
       Low21(evt) >>

EventKeys == {make_event_key(t[1], t[2], t[3]) : t \in EventIds}

\* ------------------------------------------------------------------ rows
\* rarexsec::Source as parse_kind_slice returns it
Sources == {"MC", "Ext", "Data"}

RowInputs == [id : EventIds, is_signal : BOOLEAN, w_nominal : Weights]

RowKey(row) == make_event_key(row.id[1], row.id[2], row.id[3])

\* the one row of the data sample: Processor gives it is_signal = false
\* and w_nominal = w_base = 1
DataRow == [id |-> <<1, 0, 1>>, is_signal |-> FALSE, w_nominal |-> 1]

\* a total order on rows, to list the unordered content of a file once
IdRank(id) == IF id = <<1, 0, 1>> THEN 0 ELSE 1
RowRank(row) ==
    IdRank(row.id) * 2 * Cardinality(Weights)
    + (IF row.is_signal THEN Cardinality(Weights) ELSE 0) + row.w_nominal

VARIABLES
    config,                      \* the sample descriptors of the configuration
    neg_log_u,                   \* the variate of each event key
    pc,                          \* position in Hub::Hub / the caller
    db_,                         \* entries pushed so far
    training_signal_ids_,
    training_background_ids_,
    signal_analysis_scale_,
    background_analysis_scale_,
    scan_idx,                    \* entry build_training_sets is at
    pending,                     \* rows Foreach has not yet handed out
    sig_candidates, bkg_candidates,
    total_sig_weight, total_bkg_weight,
    sig_sel, bkg_sel,            \* results of select_top
    obs,                         \* last row a caller evaluated
    mtx,                         \* owner of the Foreach mutex, 0 if free
    wpc, wcand, wtmp,            \* per worker: position, candidate, register
    sel_n,                       \* quota handed to select_top
    node,                        \* the node Hub::sample is building
    call                         \* a call of a function: arguments, result

hubVars == << config, neg_log_u, pc, db_, training_signal_ids_,
              training_background_ids_, signal_analysis_scale_,
              background_analysis_scale_, scan_idx, pending, sig_candidates,
              bkg_candidates, total_sig_weight, total_bkg_weight, sig_sel,
              bkg_sel, obs >>

scanVars == << mtx, wpc, wcand, wtmp >>

vars == << hubVars, scanVars, sel_n, node, call >>

\* what the constructor and its callers leave alone
hubFrame == << scanVars, sel_n, node, call >>

NoCall == [fn |-> "none"]

\* ------------------------------------------------------- Hub.cxx: helpers
TrainCandidate(ev_key, key, w) == [event_key |-> ev_key, key |-> key, weight |-> w]

EmptySelection == [ids |-> {}, sum_weight |-> 0]

\* u of stable_uniform, as -ln(u)
stable_uniform(key) == neg_log_u[key]

\* std::log(u) / w
SamplingKey(u, w) == Rat(0 - u, w)

RECURSIVE SumWeight(_)
SumWeight(cs) == IF cs = <<>> THEN 0 ELSE Head(cs).weight + SumWeight(Tail(cs))

IdsOf(cs) == {cs[i].event_key : i \in 1..Len(cs)}

Bijections(n) == {p \in [1..n -> 1..n] : \A i, j \in 1..n : p[i] = p[j] => i = j}

\* the vector with position i holding what was at position p[i]
Arrange(s, p) == [i \in 1..Len(s) |-> s[p[i]]]

Perms(s) == {Arrange(s, p) : p \in Bijections(Len(s))}

\* the arrangements std::nth_element may leave: no element from nth on is
\* less than an element before nth
NthElement(cands, nth) ==
    {p \in Perms(cands) :
        \A i \in 1..(nth - 1) : \A j \in nth..Len(p) :
            ~RatLess(p[j].key, p[i].key)}

\* first loop of select_top: candidates above the cutoff
RECURSIVE AboveCutoff(_, _, _, _)
AboveCutoff(arr, i, cutoff, out) ==
    IF i > Len(arr) THEN out
    ELSE LET c == arr[i]
         IN  IF RatLess(cutoff, c.key) /\ c.event_key \notin out.ids
             THEN AboveCutoff(arr, i + 1, cutoff,
                      [ids |-> out.ids \cup {c.event_key},
                       sum_weight |-> out.sum_weight + c.weight,
                       count |-> out.count + 1])
             ELSE AboveCutoff(arr, i + 1, cutoff, out)

\* second loop: candidates equal to the cutoff, until the quota is filled
RECURSIVE AtCutoff(_, _, _, _, _)
AtCutoff(arr, i, cutoff, n, out) ==
    IF i > Len(arr) THEN out
    ELSE LET c == arr[i]
         IN  IF RatEq(c.key, cutoff) /\ c.event_key \notin out.ids
             THEN LET nxt == [ids |-> out.ids \cup {c.event_key},
                              sum_weight |-> out.sum_weight + c.weight,
                              count |-> out.count + 1]
                  IN  IF nxt.count = n THEN nxt
                      ELSE AtCutoff(arr, i + 1, cutoff, n, nxt)
             ELSE AtCutoff(arr, i + 1, cutoff, n, out)

\* select_top after nth_element has left the arrangement arr
SelectFrom(arr, n) ==
    LET cutoff == arr[Len(arr) - n + 1].key
        above == AboveCutoff(arr, 1, cutoff, [ids |-> {}, sum_weight |-> 0, count |-> 0])
        filled == IF above.count < n THEN AtCutoff(arr, 1, cutoff, n, above) ELSE above
    IN  [ids |-> filled.ids, sum_weight |-> filled.sum_weight]

\* the results select_top(cands, n) can return
select_top(cands, n) ==
    IF cands = <<>> \/ n = 0 THEN {EmptySelection}
    ELSE IF Len(cands) <= n
         THEN {[ids |-> IdsOf(cands), sum_weight |-> SumWeight(cands)]}
         ELSE {SelectFrom(arr, n) : arr \in NthElement(cands, Len(cands) - n + 1)}

\* the quotient the wrong way round
AnalysisScale_Inverted(total, sel) ==
    LET analysis_weight == total - sel.sum_weight
    IN  IF analysis_weight > 0 THEN Rat(analysis_weight, total) ELSE RatOne

\* the quotient taken without looking at its denominator
AnalysisScale_Unguarded(total, sel) == Rat(total, total - sel.sum_weight)

\* total / (total - training) if the analysis weight is positive, else 1.0
AnalysisScale(total, sel) ==
    LET analysis_weight == total - sel.sum_weight
    IN  IF analysis_weight > 0 THEN Rat(total, analysis_weight) ELSE RatOne

\* --------------------------------------------------- Hub::sample, columns
\* a captured id set: the lambda holds a pointer to the member (byref) or
\* would hold a copy of its value
PtrTo(member) == [byref |-> TRUE, member |-> member, copy |-> {}]
Deref(c) ==
    IF c.byref
    THEN IF c.member = "training_signal_ids_" THEN training_signal_ids_
         ELSE training_background_ids_
    ELSE c.copy

MakeFrame(source, sig_scale, bkg_scale) ==
    [source |-> source,
     sig_ids |-> PtrTo("training_signal_ids_"),
     bkg_ids |-> PtrTo("training_background_ids_"),
     sig_scale |-> sig_scale,
     bkg_scale |-> bkg_scale]

\* the frame Hub::sample returns: the scales are copied when it is called,
\* the id sets are reached through pointers to the members
sample(rec) ==
    MakeFrame(rec.source, signal_analysis_scale_, background_analysis_scale_)

is_training(frame, row) ==
    IF frame.source = "MC"
    THEN IF row.is_signal
         THEN RowKey(row) \in Deref(frame.sig_ids)
         ELSE RowKey(row) \in Deref(frame.bkg_ids)
    ELSE FALSE

\* a w_analysis that does not read is_training
w_analysis_IgnoresTraining(frame, row) ==
    IF frame.source = "MC"
    THEN IF row.w_nominal <= 0 THEN Rat(0, 1)
         ELSE RatMul(Rat(row.w_nominal, 1),
                     IF row.is_signal THEN frame.sig_scale ELSE frame.bkg_scale)
    ELSE Rat(row.w_nominal, 1)

w_analysis(frame, row) ==
    IF frame.source = "MC"
    THEN IF row.w_nominal <= 0 THEN Rat(0, 1)
         ELSE IF is_training(frame, row) THEN Rat(0, 1)
         ELSE LET scale == IF row.is_signal THEN frame.sig_scale ELSE frame.bkg_scale
                  w == RatMul(Rat(row.w_nominal, 1), scale)
              IN  IF w.n <= 0 THEN Rat(0, 1) ELSE w
    ELSE Rat(row.w_nominal, 1)

\* ------------------------------------------------------------ Hub::Hub
NoObs == [view |-> "none"]

SortedRows(rows) == \A i \in 1..(Len(rows) - 1) : RowRank(rows[i]) <= RowRank(rows[i + 1])

Configs ==
    {<< [source |-> "MC", rows |-> r1, detvar |-> TRUE],
        [source |-> "MC", rows |-> <<r2>>, detvar |-> FALSE],
        [source |-> "Data", rows |-> <<DataRow>>, detvar |-> FALSE] >> :
        r1 \in {r \in [1..MaxRows -> RowInputs] : SortedRows(r)}, r2 \in RowInputs}

HubInit ==
    /\ config \in Configs
    /\ neg_log_u \in [EventKeys -> LnValues]
    /\ pc = "load"
    /\ db_ = <<>>
    /\ training_signal_ids_ = {}
    /\ training_background_ids_ = {}
    /\ signal_analysis_scale_ = RatOne
    /\ background_analysis_scale_ = RatOne
    /\ scan_idx = 0
    /\ pending = {}
    /\ sig_candidates = <<>>
    /\ bkg_candidates = <<>>
    /\ total_sig_weight = 0
    /\ total_bkg_weight = 0
    /\ sig_sel = EmptySelection
    /\ bkg_sel = EmptySelection
    /\ obs = NoObs
    /\ mtx = 0
    /\ wpc = <<>>
    /\ wcand = <<>>
    /\ wtmp = <<>>
    /\ sel_n = 0
    /\ call = NoCall
    /\ node = [at |-> "none"]

\* one pass of the sample loop: rec.nominal = sample(rec), a frame per
\* detector variation, bucket.push_back(rec)
LoadEntry ==
    /\ pc = "load"
    /\ Len(db_) < Len(config)
    /\ LET s == config[Len(db_) + 1]
           rec == [source |-> s.source, rows |-> s.rows,
                   nominal |-> sample(s),
                   detvars |-> IF s.detvar THEN <<sample(s)>> ELSE <<>>]
       IN  db_' = Append(db_, rec)
    /\ UNCHANGED hubFrame
    /\ UNCHANGED << config, neg_log_u, pc, training_signal_ids_,
                    training_background_ids_, signal_analysis_scale_,
                    background_analysis_scale_, scan_idx, pending,
                    sig_candidates, bkg_candidates, total_sig_weight,
                    total_bkg_weight, sig_sel, bkg_sel, obs >>

\* the loop is over: build_training_sets() is entered
EnterBuild ==
    /\ pc = "load"
    /\ Len(db_) = Len(config)
    /\ pc' = "scan"
    /\ scan_idx' = 1
    /\ UNCHANGED hubFrame
    /\ UNCHANGED << config, neg_log_u, db_, training_signal_ids_,
                    training_background_ids_, signal_analysis_scale_,
                    background_analysis_scale_, pending, sig_candidates,
                    bkg_candidates, total_sig_weight, total_bkg_weight,
                    sig_sel, bkg_sel, obs >>

\* ------------------------------------------------ build_training_sets
\* if (rec.source != Source::MC) continue;
SkipEntry ==
    /\ pc = "scan"
    /\ scan_idx <= Len(db_)
    /\ db_[scan_idx].source # "MC"
    /\ scan_idx' = scan_idx + 1
    /\ UNCHANGED hubFrame
    /\ UNCHANGED << config, neg_log_u, pc, db_, training_signal_ids_,
                    training_background_ids_, signal_analysis_scale_,
                    background_analysis_scale_, pending, sig_candidates,
                    bkg_candidates, total_sig_weight, total_bkg_weight,
                    sig_sel, bkg_sel, obs >>

\* node.Foreach(...) starts on the rows of a simulation entry
BeginForeach ==
    /\ pc = "scan"
    /\ scan_idx <= Len(db_)
    /\ db_[scan_idx].source = "MC"
    /\ pc' = "foreach"
    /\ pending' = 1..Len(db_[scan_idx].rows)
    /\ UNCHANGED hubFrame
    /\ UNCHANGED << config, neg_log_u, db_, training_signal_ids_,
                    training_background_ids_, signal_analysis_scale_,
                    background_analysis_scale_, scan_idx, sig_candidates,
                    bkg_candidates, total_sig_weight, total_bkg_weight,
                    sig_sel, bkg_sel, obs >>

\* a callback without the early return on the weight
Accepted_AnyWeight(row) == stable_uniform(RowKey(row)) > 0

\* the two early returns of the callback (lines 358-364): the weight is
\* finite and positive, and u lies strictly between 0 and 1 (u > 0 always;
\* u < 1 is -ln(u) > 0)
Accepted(row) == row.w_nominal > 0 /\ stable_uniform(RowKey(row)) > 0

\* TrainCandidate cand{ev_key, key, w}
CandidateOf(row) ==
    TrainCandidate(RowKey(row),
                   SamplingKey(stable_uniform(RowKey(row)), row.w_nominal),
                   row.w_nominal)

\* the callback on one row, with its critical section run under the lock;
\* the workers take the rows in any order
ForeachRow(i) ==
    /\ pc = "foreach"
    /\ i \in pending
    /\ pending' = pending \ {i}
    /\ LET row == db_[scan_idx].rows[i]
           cand == CandidateOf(row)
       IN  IF ~Accepted(row)
           THEN UNCHANGED << sig_candidates, bkg_candidates,
                             total_sig_weight, total_bkg_weight >>
           ELSE IF row.is_signal
                THEN /\ sig_candidates' = Append(sig_candidates, cand)
                     /\ total_sig_weight' = total_sig_weight + cand.weight
                     /\ UNCHANGED << bkg_candidates, total_bkg_weight >>
                ELSE /\ bkg_candidates' = Append(bkg_candidates, cand)
                     /\ total_bkg_weight' = total_bkg_weight + cand.weight
                     /\ UNCHANGED << sig_candidates, total_sig_weight >>
    /\ UNCHANGED hubFrame
    /\ UNCHANGED << config, neg_log_u, pc, db_, training_signal_ids_,
                    training_background_ids_, signal_analysis_scale_,
                    background_analysis_scale_, scan_idx, sig_sel, bkg_sel,
                    obs >>

\* Foreach returns when every row has been processed
EndForeach ==
    /\ pc = "foreach"
    /\ pending = {}
    /\ pc' = "scan"
    /\ scan_idx' = scan_idx + 1
    /\ UNCHANGED hubFrame
    /\ UNCHANGED << config, neg_log_u, db_, training_signal_ids_,
                    training_background_ids_, signal_analysis_scale_,
                    background_analysis_scale_, pending, sig_candidates,
                    bkg_candidates, total_sig_weight, total_bkg_weight,
                    sig_sel, bkg_sel, obs >>

\* lines 385-386: the two calls of select_top
SelectTop ==
    /\ pc = "scan"
    /\ scan_idx > Len(db_)
    /\ sig_sel' \in select_top(sig_candidates, kTrainingNSignal)
    /\ bkg_sel' \in select_top(bkg_candidates, kTrainingNBackground)
    /\ pc' = "store"
    /\ UNCHANGED hubFrame
    /\ UNCHANGED << config, neg_log_u, db_, training_signal_ids_,
                    training_background_ids_, signal_analysis_scale_,
                    background_analysis_scale_, scan_idx, pending,
                    sig_candidates, bkg_candidates, total_sig_weight,
                    total_bkg_weight, obs >>

\* lines 388-402, and the constructor returns
StoreSets ==
    /\ pc = "store"
    /\ training_signal_ids_' = sig_sel.ids
    /\ training_background_ids_' = bkg_sel.ids
    /\ signal_analysis_scale_' = AnalysisScale(total_sig_weight, sig_sel)
    /\ background_analysis_scale_' = AnalysisScale(total_bkg_weight, bkg_sel)
    /\ pc' = "done"
    /\ UNCHANGED hubFrame
    /\ UNCHANGED << config, neg_log_u, db_, scan_idx, pending, sig_candidates,
                    bkg_candidates, total_sig_weight, total_bkg_weight,
                    sig_sel, bkg_sel, obs >>

\* ------------------------------------------------------------ callers
Observe(view, e, frame, row) ==
    [view |-> view, entry |-> e, row |-> row,
     is_training |-> is_training(frame, row),
     w_analysis |-> w_analysis(frame, row)]

\* a caller runs the event loop of an entry's nominal view
EvaluateNominal(e, i) ==
    /\ pc = "done"
    /\ e \in 1..Len(db_)
    /\ i \in 1..Len(db_[e].rows)
    /\ obs' = Observe("nominal", e, db_[e].nominal, db_[e].rows[i])
    /\ UNCHANGED hubFrame
    /\ UNCHANGED << config, neg_log_u, pc, db_, training_signal_ids_,
                    training_background_ids_, signal_analysis_scale_,
                    background_analysis_scale_, scan_idx, pending,
                    sig_candidates, bkg_candidates, total_sig_weight,
                    total_bkg_weight, sig_sel, bkg_sel >>

\* a caller runs the event loop of a detector-variation view; its file
\* holds any rows
EvaluateDetvar(e, row) ==
    /\ pc = "done"
    /\ e \in 1..Len(db_)
    /\ db_[e].detvars # <<>>
    /\ obs' = Observe("detvar", e, db_[e].detvars[1], row)
    /\ UNCHANGED hubFrame
    /\ UNCHANGED << config, neg_log_u, pc, db_, training_signal_ids_,
                    training_background_ids_, signal_analysis_scale_,
                    background_analysis_scale_, scan_idx, pending,
                    sig_candidates, bkg_candidates, total_sig_weight,
                    total_bkg_weight, sig_sel, bkg_sel >>

\* ---------------------------------------------- the public operations
\* the entries of the periods of a beamline whose source is in keep, as
\* references <<beamline, period, index>> in the order of the call;
\* db maps a beamline to a map from periods to entry lists
RECURSIVE EntriesOf(_, _, _, _)
EntriesOf(db, beamline, periods, keep) ==
    IF beamline \notin DOMAIN db \/ periods = <<>> THEN <<>>
    ELSE LET per == Head(periods)
             rest == EntriesOf(db, beamline, Tail(periods), keep)
         IN  IF per \notin DOMAIN db[beamline] THEN rest
             ELSE LET bucket == db[beamline][per]
                      refs == [i \in 1..Len(bucket) |-> <<beamline, per, i>>]
                      kept(r) == bucket[r[3]].source \in keep
                  IN  SelectSeq(refs, kept) \o rest

\* rec.source != Source::Data
simulation_entries(db, beamline, periods) ==
    EntriesOf(db, beamline, periods, Sources \ {"Data"})

\* rec.source == Source::Data
data_entries(db, beamline, periods) ==
    EntriesOf(db, beamline, periods, {"Data"})

\* the catalog of the constructor's configuration: one beamline, one period
Bucket == [b \in {"numi"} |-> [p \in {"run1"} |-> db_]]

\* a caller calls hub.sample(rec) on an entry of the catalog
CallSample_Rebuilds(e) ==
    /\ pc = "done"
    /\ e \in 1..Len(db_)
    /\ obs' = [view |-> "sample", entry |-> e, frame |-> sample(db_[e])]
    /\ signal_analysis_scale_' = RatOne
    /\ background_analysis_scale_' = RatOne
    /\ UNCHANGED hubFrame
    /\ UNCHANGED << config, neg_log_u, pc, db_, training_signal_ids_,
                    training_background_ids_, scan_idx, pending,
                    sig_candidates, bkg_candidates, total_sig_weight,
                    total_bkg_weight, sig_sel, bkg_sel >>

CallSample(e) ==
    /\ pc = "done"
    /\ e \in 1..Len(db_)
    /\ obs' = [view |-> "sample", entry |-> e, frame |-> sample(db_[e])]
    /\ UNCHANGED hubFrame
    /\ UNCHANGED << config, neg_log_u, pc, db_, training_signal_ids_,
                    training_background_ids_, signal_analysis_scale_,
                    background_analysis_scale_, scan_idx, pending,
                    sig_candidates, bkg_candidates, total_sig_weight,
                    total_bkg_weight, sig_sel, bkg_sel >>

\* a caller lists the entries of the beamline
CallEntries ==
    /\ pc = "done"
    /\ \/ obs' = [view |-> "simulation_entries",
                  entries |-> simulation_entries(Bucket, "numi", <<"run1">>)]
       \/ obs' = [view |-> "data_entries",
                  entries |-> data_entries(Bucket, "numi", <<"run1">>)]
    /\ UNCHANGED hubFrame
    /\ UNCHANGED << config, neg_log_u, pc, db_, training_signal_ids_,
                    training_background_ids_, signal_analysis_scale_,
                    background_analysis_scale_, scan_idx, pending,
                    sig_candidates, bkg_candidates, total_sig_weight,
                    total_bkg_weight, sig_sel, bkg_sel >>

HubNext ==
    \/ LoadEntry
    \/ EnterBuild
    \/ SkipEntry
    \/ BeginForeach
    \/ \E i \in 1..MaxRows : ForeachRow(i)
    \/ EndForeach
    \/ SelectTop
    \/ StoreSets
    \/ \E e \in 1..3 : \E i \in 1..MaxRows : EvaluateNominal(e, i)
    \/ \E e \in 1..3 : \E row \in RowInputs : EvaluateDetvar(e, row)
    \/ \E e \in 1..3 : CallSample(e)
    \/ CallEntries

\* ======================================================================
\* The Foreach of build_training_sets at the level of its lock: the rows of
\* one simulation entry, handed to ScanWorkers workers.
\* ======================================================================
ScanWorkers == 2

Workers == 1..ScanWorkers

NoCand == [event_key |-> <<0, 0, 0>>, key |-> Rat(0, 1), weight |-> 0]

\* the rows of the scanned file
ScanRowInputs == {r \in RowInputs : r.id = <<1, 0, 1>>}

ScanInit ==
    /\ config = <<>>
    /\ neg_log_u \in {f \in [EventKeys -> LnValues] :
                         f[make_event_key(1, 0, 2)] = 1}
    /\ pc = "foreach"
    /\ \E rows \in {r \in [1..MaxRows -> ScanRowInputs] : SortedRows(r)} :
           db_ = << [source |-> "MC", rows |-> rows,
                     nominal |-> MakeFrame("MC", RatOne, RatOne),
                     detvars |-> <<>>] >>
    /\ training_signal_ids_ = {}
    /\ training_background_ids_ = {}
    /\ signal_analysis_scale_ = RatOne
    /\ background_analysis_scale_ = RatOne
    /\ scan_idx = 1
    /\ pending = 1..MaxRows
    /\ sig_candidates = <<>>
    /\ bkg_candidates = <<>>
    /\ total_sig_weight = 0
    /\ total_bkg_weight = 0
    /\ sig_sel = EmptySelection
    /\ bkg_sel = EmptySelection
    /\ obs = NoObs
    /\ mtx = 0
    /\ wpc = [w \in Workers |-> "idle"]
    /\ wcand = [w \in Workers |-> [is_signal |-> FALSE, cand |-> NoCand]]
    /\ wtmp = [w \in Workers |-> 0]
    /\ sel_n = 0
    /\ call = NoCall
    /\ node = [at |-> "none"]

scanFrame == << config, neg_log_u, db_, training_signal_ids_,
                training_background_ids_, signal_analysis_scale_,
                background_analysis_scale_, sig_sel, bkg_sel, obs, sel_n, node,
                call >>

\* a callback that appends without waiting for the mutex
CanLock_NoExclusion(w) == TRUE

\* std::lock_guard<std::mutex> lock(mtx) may proceed
CanLock(w) == mtx = 0

\* a worker is handed a row and runs the callback up to the lock
WorkerTake(w, i) ==
    /\ pc = "foreach"
    /\ wpc[w] = "idle"
    /\ i \in pending
    /\ pending' = pending \ {i}
    /\ LET row == db_[scan_idx].rows[i]
       IN  IF ~Accepted(row)
           THEN UNCHANGED << wpc, wcand >>
           ELSE /\ wpc' = [wpc EXCEPT ![w] = "lock"]
                /\ wcand' = [wcand EXCEPT ![w] =
                       [is_signal |-> row.is_signal, cand |-> CandidateOf(row)]]
    /\ UNCHANGED << scanFrame, pc, scan_idx, sig_candidates, bkg_candidates,
                    total_sig_weight, total_bkg_weight, mtx, wtmp >>

WorkerLock(w) ==
    /\ wpc[w] = "lock"
    /\ CanLock(w)
    /\ mtx' = w
    /\ wpc' = [wpc EXCEPT ![w] = "push"]
    /\ UNCHANGED << scanFrame, pc, scan_idx, pending, sig_candidates,
                    bkg_candidates, total_sig_weight, total_bkg_weight,
                    wcand, wtmp >>

\* emplace_back(cand)
WorkerPush(w) ==
    /\ wpc[w] = "push"
    /\ IF wcand[w].is_signal
       THEN /\ sig_candidates' = Append(sig_candidates, wcand[w].cand)
            /\ UNCHANGED bkg_candidates
       ELSE /\ bkg_candidates' = Append(bkg_candidates, wcand[w].cand)
            /\ UNCHANGED sig_candidates
    /\ wpc' = [wpc EXCEPT ![w] = "load"]
    /\ UNCHANGED << scanFrame, pc, scan_idx, pending, total_sig_weight,
                    total_bkg_weight, mtx, wcand, wtmp >>

\* total += w: the load
WorkerLoad(w) ==
    /\ wpc[w] = "load"
    /\ wtmp' = [wtmp EXCEPT ![w] =
           IF wcand[w].is_signal THEN total_sig_weight ELSE total_bkg_weight]
    /\ wpc' = [wpc EXCEPT ![w] = "store"]
    /\ UNCHANGED << scanFrame, pc, scan_idx, pending, sig_candidates,
                    bkg_candidates, total_sig_weight, total_bkg_weight, mtx,
                    wcand >>

\* total += w: the store; the lock_guard is released on return
WorkerStore(w) ==
    /\ wpc[w] = "store"
    /\ IF wcand[w].is_signal
       THEN /\ total_sig_weight' = wtmp[w] + wcand[w].cand.weight
            /\ UNCHANGED total_bkg_weight
       ELSE /\ total_bkg_weight' = wtmp[w] + wcand[w].cand.weight
            /\ UNCHANGED total_sig_weight
    /\ mtx' = IF mtx = w THEN 0 ELSE mtx
    /\ wpc' = [wpc EXCEPT ![w] = "idle"]
    /\ UNCHANGED << scanFrame, pc, scan_idx, pending, sig_candidates,
                    bkg_candidates, wcand, wtmp >>

\* Foreach returns: no row is left and every worker is back
ScanEnd ==
    /\ pc = "foreach"
    /\ pending = {}
    /\ \A w \in Workers : wpc[w] = "idle"
    /\ pc' = "scan"
    /\ scan_idx' = scan_idx + 1
    /\ UNCHANGED << scanFrame, pending, sig_candidates, bkg_candidates,
                    total_sig_weight, total_bkg_weight, mtx, wpc, wcand, wtmp >>

ScanNext ==
    \/ \E w \in Workers : \E i \in 1..MaxRows : WorkerTake(w, i)
    \/ \E w \in Workers : WorkerLock(w)
    \/ \E w \in Workers : WorkerPush(w)
    \/ \E w \in Workers : WorkerLoad(w)
    \/ \E w \in Workers : WorkerStore(w)
    \/ ScanEnd

SpecScan == ScanInit /\ [][ScanNext]_vars

\* ======================================================================
\* select_top and the rescale factor as functions of a candidate list and
\* a quota (lines 55-103 and 385-402).
\* ======================================================================
MaxCands == 3
MaxQuota == 2

\* candidates the scan can produce
CandInputs(nlu) ==
    {TrainCandidate(k, SamplingKey(nlu[k], w), w) :
        k \in {e \in EventKeys : nlu[e] > 0}, w \in {x \in Weights : x > 0}}

SeqsUpTo(S, n) == UNION {[1..m -> S] : m \in 0..n}

SelectInit ==
    /\ config = <<>>
    /\ neg_log_u \in [EventKeys -> LnValues]
    /\ pc = "scan"
    /\ db_ = <<>>
    /\ training_signal_ids_ = {}
    /\ training_background_ids_ = {}
    /\ signal_analysis_scale_ = RatOne
    /\ background_analysis_scale_ = RatOne
    /\ scan_idx = 1
    /\ pending = {}
    /\ sig_candidates \in SeqsUpTo(CandInputs(neg_log_u), MaxCands)
    /\ bkg_candidates = <<>>
    /\ total_sig_weight = SumWeight(sig_candidates)
    /\ total_bkg_weight = 0
    /\ sig_sel = EmptySelection
    /\ bkg_sel = EmptySelection
    /\ obs = NoObs
    /\ mtx = 0
    /\ wpc = <<>>
    /\ wcand = <<>>
    /\ wtmp = <<>>
    /\ sel_n \in 0..MaxQuota
    /\ call = NoCall
    /\ node = [at |-> "none"]

\* const auto sig_sel = select_top(sig_candidates, n)
ApplySelectTop ==
    /\ pc = "scan"
    /\ sig_sel' \in select_top(sig_candidates, sel_n)
    /\ pc' = "store"
    /\ UNCHANGED << config, neg_log_u, db_, training_signal_ids_,
                    training_background_ids_, signal_analysis_scale_,
                    background_analysis_scale_, scan_idx, pending,
                    sig_candidates, bkg_candidates, total_sig_weight,
                    total_bkg_weight, bkg_sel, obs, scanVars, sel_n,
                    node, call >>

\* lines 388-397 for the class
ApplyStore ==
    /\ pc = "store"
    /\ training_signal_ids_' = sig_sel.ids
    /\ signal_analysis_scale_' = AnalysisScale(total_sig_weight, sig_sel)
    /\ pc' = "done"
    /\ UNCHANGED << config, neg_log_u, db_, training_background_ids_,
                    background_analysis_scale_, scan_idx, pending,
                    sig_candidates, bkg_candidates, total_sig_weight,
                    total_bkg_weight, sig_sel, bkg_sel, obs, scanVars, sel_n,
                    node, call >>

SelectNext ==
    \/ ApplySelectTop
    \/ ApplyStore

SpecSelect == SelectInit /\ [][SelectNext]_vars

\* ======================================================================
\* The node of one entry as Hub::sample builds it: the columns of the input
\* tree, then the definitions of Processor::run, apply_slice, and its own.
\* RNode::Define throws when the node already has a column of the name.
kTrainingFractionPct == 10
kTrainingIncludeExt == TRUE

\* ml_u of a row, in percent
MlValues == {5, 10}

Slices == {"None", "StrangenessInclusive"}
RawRequired == {"run", "sub", "evt", "is_nu_mu_cc"}
RawOptional == {"ml_u", "is_training", "is_template", "w_template"}

ColumnNames(v) == {c.name : c \in v.columns}

Define(v, name, by) ==
    IF v.thrown THEN v
    ELSE IF name \in ColumnNames(v) THEN [v EXCEPT !.thrown = TRUE]
    ELSE [v EXCEPT !.columns = @ \cup {[name |-> name, by |-> by]}]

RECURSIVE DefineAll(_, _, _)
DefineAll(v, names, by) ==
    IF names = <<>> THEN v
    ELSE DefineAll(Define(v, Head(names), by), Tail(names), by)

\* where the function is after a step: an exception leaves it
Step(v, next) == [v EXCEPT !.at = IF v.thrown THEN "thrown" ELSE next]

ColumnsInit ==
    /\ config = <<>>
    /\ neg_log_u = [k \in EventKeys |-> 1]
    /\ pc = "sample"
    /\ db_ = <<>>
    /\ training_signal_ids_ = {}
    /\ training_background_ids_ \in {{}, {make_event_key(1, 0, 1)}}
    /\ signal_analysis_scale_ = RatOne
    /\ background_analysis_scale_ = RatOne
    /\ scan_idx = 1
    /\ pending = {}
    /\ sig_candidates = <<>>
    /\ bkg_candidates = <<>>
    /\ total_sig_weight = 0
    /\ total_bkg_weight = 0
    /\ sig_sel = EmptySelection
    /\ bkg_sel = EmptySelection
    /\ obs = NoObs
    /\ mtx = 0
    /\ wpc = <<>>
    /\ wcand = <<>>
    /\ wtmp = <<>>
    /\ sel_n = 0
    /\ call = NoCall
    /\ \E src \in Sources, sl \in Slices, raw \in SUBSET RawOptional,
          u \in MlValues, flag \in BOOLEAN :
           node = [at |-> "weights",
                   source |-> src,
                   slice |-> sl,
                   columns |-> {[name |-> n, by |-> "input"] :
                                   n \in RawRequired \cup raw},
                   thrown |-> FALSE,
                   row |-> DataRow,
                   ml_u |-> u,
                   stored_flag |-> flag]

\* Processor::run: w_base, w_nominal
RunWeights ==
    /\ node.at = "weights"
    /\ node' = Step(DefineAll(node, <<"w_base", "w_nominal">>,
                              "Processor::run"), "training")
    /\ UNCHANGED << hubVars, scanVars, sel_n, call >>

\* Processor::run: the training columns, each defined unless the names
\* read at the start of the block hold it
RunTrainingColumns ==
    /\ node.at = "training"
    /\ LET cnames == ColumnNames(node)
           has(name) == name \in cnames
           v1 == IF ~has("ml_u") THEN Define(node, "ml_u", "Processor::run")
                 ELSE node
           v2 == IF ~has("is_training")
                 THEN Define(v1, "is_training", "Processor::run") ELSE v1
           v3 == IF ~has("is_template")
                 THEN Define(v2, "is_template", "Processor::run") ELSE v2
           v4 == IF ~has("w_template")
                 THEN Define(v3, "w_template", "Processor::run") ELSE v3
       IN  node' = Step(v4, "truth")
    /\ UNCHANGED << hubVars, scanVars, sel_n, call >>

\* Processor::run: the truth columns or their fallbacks, in_reco_fiducial
RunTruthColumns ==
    /\ node.at = "truth"
    /\ LET names == IF node.source = "MC"
                    THEN << "in_fiducial", "count_strange", "is_strange",
                            "scattering_mode", "analysis_channels",
                            "is_signal", "recognised_signal",
                            "in_reco_fiducial" >>
                    ELSE << "in_fiducial", "is_strange", "scattering_mode",
                            "analysis_channels", "is_signal",
                            "recognised_signal", "in_reco_fiducial" >>
       IN  node' = Step(DefineAll(node, names, "Processor::run"), "slice")
    /\ UNCHANGED << hubVars, scanVars, sel_n, call >>

\* Hub::apply_slice: filters only; a slice on a non-MC entry throws
ApplySlice ==
    /\ node.at = "slice"
    /\ node' = Step([node EXCEPT !.thrown =
                        node.source # "MC" /\ node.slice # "None"], "sample")
    /\ UNCHANGED << hubVars, scanVars, sel_n, call >>

\* Hub::sample: is_training, w_analysis
SampleColumns ==
    /\ node.at = "sample"
    /\ node' = Step(DefineAll(node, <<"is_training", "w_analysis">>,
                              "Hub::sample"), "done")
    /\ UNCHANGED << hubVars, scanVars, sel_n, call >>

ColumnsNext ==
    \/ RunWeights
    \/ RunTrainingColumns
    \/ RunTruthColumns
    \/ ApplySlice
    \/ SampleColumns

SpecColumns == ColumnsInit /\ [][ColumnsNext]_vars

\* what the column is_training of the node computes on its row
ColumnBy(v, name) == (CHOOSE c \in v.columns : c.name = name).by

IsTrainingColumn(v) ==
    LET by == ColumnBy(v, "is_training")
        trainable == v.source = "MC" \/ (v.source = "Ext" /\ kTrainingIncludeExt)
    IN  IF by = "Hub::sample"
        THEN is_training(MakeFrame(v.source, RatOne, RatOne), v.row)
        ELSE IF by = "Processor::run"
        THEN trainable /\ v.ml_u < kTrainingFractionPct
        ELSE v.stored_flag

\* ======================================================================
\* Calls of the functions of the two files on given arguments: the catalog
\* is not involved, its variables rest.
\* ======================================================================
Idle ==
    /\ config = <<>>
    /\ neg_log_u = [k \in EventKeys |-> 1]
    /\ pc = "call"
    /\ db_ = <<>>
    /\ training_signal_ids_ = {}
    /\ training_background_ids_ = {}
    /\ signal_analysis_scale_ = RatOne
    /\ background_analysis_scale_ = RatOne
    /\ scan_idx = 1
    /\ pending = {}
    /\ sig_candidates = <<>>
    /\ bkg_candidates = <<>>
    /\ total_sig_weight = 0
    /\ total_bkg_weight = 0
    /\ sig_sel = EmptySelection
    /\ bkg_sel = EmptySelection
    /\ obs = NoObs
    /\ mtx = 0
    /\ wpc = <<>>
    /\ wcand = <<>>
    /\ wtmp = <<>>
    /\ sel_n = 0
    /\ node = [at |-> "none"]

callFrame == << hubVars, scanVars, sel_n, node >>

\* --------------------------------------------------- make_event_key
\* run, sub, evt as the tree holds them: at and around the ends of the
\* 22, 21 and 21 bits the key gives them, and a negative event number
RunValues == {0, 1, 2^22 - 1, 2^22}
SubValues == {0, 1, 2^21 - 1, 2^21}
EvtValues == {0, 1, 2^21 - 1, 2^21, -1}

KeyInit ==
    /\ Idle
    /\ \E a, b \in RunValues \X SubValues \X EvtValues :
           call = [fn |-> "make_event_key", a |-> a, b |-> b, at |-> "called"]

\* the two rows' keys are computed
ReturnKeys ==
    /\ call.fn = "make_event_key"
    /\ call.at = "called"
    /\ call' = [fn |-> "make_event_key", a |-> call.a, b |-> call.b,
                at |-> "returned",
                key_a |-> make_event_key(call.a[1], call.a[2], call.a[3]),
                key_b |-> make_event_key(call.b[1], call.b[2], call.b[3])]
    /\ UNCHANGED callFrame

KeyNext ==
    \/ ReturnKeys

SpecKey == KeyInit /\ [][KeyNext]_vars

\* --------------------------------------------------- stable_uniform
\* A 64-bit hash h is the limbs <<bits 42..63, bits 21..41, bits 0..20>>.
\* A double that is a multiple of 1/2 below or at 2^64 is the record
\* [over, a, b, c, half]: over * 2^64 + limbs <<a, b, c>> + half / 2.
RECURSIVE Log2(_)
Log2(x) == IF x <= 1 THEN 0 ELSE 1 + Log2(x \div 2)

\* h + 2^k, with the carries through the limbs
AddPow2(h, k) ==
    LET c == h[3] + 2^k
        b == h[2] + (c \div 2^21)
        a == h[1] + (b \div 2^21)
    IN  [over |-> a \div 2^22, a |-> a % 2^22, b |-> b % 2^21,
         c |-> c % 2^21, half |-> 0]

\* static_cast<double>(h): round to nearest, ties to even, on 53 bits.
\* The leading bit of h is bit 42 + Log2(a); the bits below bit k drop.
ToDouble(h) ==
    LET k == IF h[1] >= 2^11 THEN Log2(h[1]) - 10 ELSE 0
        low == h[3] % 2^k
        kept == << h[1], h[2], h[3] - low >>
        odd == (h[3] \div 2^k) % 2 = 1
        up == k > 0 /\ (2 * low > 2^k \/ (2 * low = 2^k /\ odd))
    IN  IF up THEN AddPow2(kept, k)
        ELSE [over |-> 0, a |-> kept[1], b |-> kept[2], c |-> kept[3],
              half |-> 0]

\* d + 0.5 on doubles, for d = static_cast<double>(h): exact below 2^52,
\* a tie between d and d + 1 from 2^52 on, d itself from 2^53 on
PlusHalf(d) ==
    IF d.over = 0 /\ d.a < 2^10 THEN [d EXCEPT !.half = 1]
    ELSE IF d.over = 0 /\ d.a < 2^11 /\ d.c % 2 = 1
         THEN AddPow2(<< d.a, d.b, d.c >>, 0)
         ELSE d

\* std::hash<std::uint64_t> is implementation defined: h is any 64-bit
\* value.  The values are at and around 0, 2^52, 2^53, 2^63 and 2^64.
HashValues ==
    { <<0, 0, 0>>, <<0, 0, 1>>, <<0, 1, 0>>, <<1, 0, 0>>,
      <<2^10 - 1, 2^21 - 1, 2^21 - 1>>, <<2^10, 0, 0>>, <<2^10, 0, 1>>,
      <<2^11, 0, 1>>, <<2^11, 0, 3>>,
      <<2^21, 0, 0>>, <<2^21, 0, 1024>>, <<2^21, 0, 1025>>,
      <<2^22 - 1, 2^21 - 1, 2^21 - 2048>>,
      <<2^22 - 1, 2^21 - 1, 2^21 - 1025>>,
      <<2^22 - 1, 2^21 - 1, 2^21 - 1024>>,
      <<2^22 - 1, 2^21 - 1, 2^21 - 1>> }

\* (static_cast<double>(h) + 0.5) * inv in units of 2^-64: inv is
\* 1.0 / static_cast<double>(2^64 - 1), the double 2^-64, and the product
\* with a power of two is exact
UniformOfHash(h) == PlusHalf(ToDouble(h))

UniformIsZero(u) ==
    u.over = 0 /\ u.a = 0 /\ u.b = 0 /\ u.c = 0 /\ u.half = 0
UniformBelowOne(u) == u.over = 0

UniformInit ==
    /\ Idle
    /\ \E h \in HashValues, w \in Weights :
           call = [fn |-> "callback", h |-> h, w_nominal |-> w,
                   at |-> "called"]

\* if (!std::isfinite(w_nominal) || w_nominal <= 0.0f) return;
GuardWeight ==
    /\ call.fn = "callback"
    /\ call.at = "called"
    /\ call' = [call EXCEPT !.at = IF call.w_nominal <= 0 THEN "returned"
                                   ELSE "hash"]
    /\ UNCHANGED callFrame

\* const double u = stable_uniform(ev_key);
ReturnUniform ==
    /\ call.fn = "callback"
    /\ call.at = "hash"
    /\ call' = [fn |-> "callback", h |-> call.h,
                w_nominal |-> call.w_nominal, at |-> "uniform",
                u |-> UniformOfHash(call.h)]
    /\ UNCHANGED callFrame

\* if (!(u > 0.0 && u < 1.0)) return;  then the candidate is built
GuardUniform ==
    /\ call.fn = "callback"
    /\ call.at = "uniform"
    /\ call' = [call EXCEPT !.at =
                   IF ~UniformIsZero(call.u) /\ UniformBelowOne(call.u)
                   THEN "candidate" ELSE "returned"]
    /\ UNCHANGED callFrame

UniformNext ==
    \/ GuardWeight
    \/ ReturnUniform
    \/ GuardUniform

SpecUniform == UniformInit /\ [][UniformNext]_vars

\* --------------------------------- simulation_entries, data_entries
\* entries per period
MaxEntries == 2

\* a catalog with one beamline and two periods; the first period holds
\* any entries, the second one simulation entry
Catalogs ==
    { [bl \in {"numi"} |->
          [per \in {"run1", "run2"} |->
              IF per = "run1" THEN bucket ELSE << [source |-> "MC"] >>]] :
      bucket \in SeqsUpTo([source : Sources], MaxEntries) }

\* the arguments of a call: a known or an unknown beamline, and periods
\* in any order, repeated, or unknown
BeamlineArgs == {"numi", "bnb"}
PeriodArgs ==
    { <<>>, <<"run1">>, <<"run3">>, <<"run1", "run2">>, <<"run2", "run1">>,
      <<"run3", "run1">>, <<"run1", "run1">> }

CatalogInit ==
    /\ Idle
    /\ \E db \in Catalogs, bl \in BeamlineArgs, pers \in PeriodArgs :
           call = [fn |-> "entries", db |-> db, beamline |-> bl,
                   periods |-> pers, at |-> "called"]

ReturnSimulationEntries ==
    /\ call.fn = "entries"
    /\ call.at = "called"
    /\ call' = [fn |-> "entries", db |-> call.db, beamline |-> call.beamline,
                periods |-> call.periods, at |-> "simulation_entries",
                out |-> simulation_entries(call.db, call.beamline,
                                           call.periods)]
    /\ UNCHANGED callFrame

ReturnDataEntries ==
    /\ call.fn = "entries"
    /\ call.at = "called"
    /\ call' = [fn |-> "entries", db |-> call.db, beamline |-> call.beamline,
                periods |-> call.periods, at |-> "data_entries",
                out |-> data_entries(call.db, call.beamline, call.periods)]
    /\ UNCHANGED callFrame

CatalogNext ==
    \/ ReturnSimulationEntries
    \/ ReturnDataEntries

SpecCatalog == CatalogInit /\ [][CatalogNext]_vars

\* ------------------------- analysis_channels, is_signal (Processor::run)
\* the labels the classification returns
Channel ==
    { "OutFV", "External", "NC", "CCS1", "CCSgt1", "ECCC", "MuCC0pi_ge1p",
      "MuCC1pi", "MuCCPi0OrGamma", "MuCCNpi", "MuCCOther", "Unknown",
      "DataInclusive" }

Abs(x) == IF x < 0 THEN -x ELSE x

\* <<n_K_plus, n_K_minus, n_K0, n_lambda, n_sigma_plus, n_sigma0,
\*   n_sigma_minus>>
StrangeValues ==
    { <<0, 0, 0, 0, 0, 0, 0>>, <<1, 0, 0, 0, 0, 0, 0>>,
      <<0, 0, 0, 1, 0, 0, 0>>, <<1, 0, 0, 1, 0, 0, 0>> }

count_strange(k) == k[1] + k[2] + k[3] + k[4] + k[5] + k[6] + k[7]

\* the raw truth columns of a simulation row
TruthRows ==
    [ in_fiducial : BOOLEAN, nu_pdg : {0, 12, 14, -14, 16},
      int_ccnc : {0, 1, 2}, strange : StrangeValues, n_p : {0, 1},
      n_pi_minus : {0, 1}, n_pi_plus : {0, 1}, n_pi0 : {0, 1},
      n_gamma : {0, 2}, is_nu_mu_cc : BOOLEAN,
      lambda_decay_in_fid : {<<>>, <<0>>, <<0, 1>>} ]

\* a row of an entry that is no simulation: no truth column is read
NoTruth == CHOOSE r \in TruthRows :
    /\ ~r.in_fiducial /\ r.nu_pdg = 0 /\ r.int_ccnc = 0
    /\ r.strange = <<0, 0, 0, 0, 0, 0, 0>> /\ r.n_p = 0
    /\ r.n_pi_minus = 0 /\ r.n_pi_plus = 0 /\ r.n_pi0 = 0 /\ r.n_gamma = 0
    /\ ~r.is_nu_mu_cc /\ r.lambda_decay_in_fid = <<>>

\* the classification without its last return
analysis_channels_NoFallback(r) ==
    LET nu == r.nu_pdg
        ccnc == r.int_ccnc
        s == count_strange(r.strange)
        npi == r.n_pi_minus + r.n_pi_plus
    IN  IF ~r.in_fiducial
        THEN IF nu = 0 THEN "OutFV" ELSE "External"
        ELSE IF ccnc = 1 THEN "NC"
        ELSE IF ccnc = 0 /\ s > 0
        THEN IF s = 1 THEN "CCS1" ELSE "CCSgt1"
        ELSE IF Abs(nu) = 12 /\ ccnc = 0 THEN "ECCC"
        ELSE IF Abs(nu) = 14 /\ ccnc = 0
        THEN IF npi = 0 /\ r.n_p > 0 THEN "MuCC0pi_ge1p"
             ELSE IF npi = 1 /\ r.n_pi0 = 0 THEN "MuCC1pi"
             ELSE IF r.n_pi0 > 0 \/ r.n_gamma >= 2 THEN "MuCCPi0OrGamma"
             ELSE IF npi > 1 THEN "MuCCNpi"
             ELSE "MuCCOther"
        ELSE "none"

\* the classification with the flavour rules ahead of the strangeness rule
analysis_channels_FlavourFirst(r) ==
    LET nu == r.nu_pdg
        ccnc == r.int_ccnc
        s == count_strange(r.strange)
        npi == r.n_pi_minus + r.n_pi_plus
    IN  IF ~r.in_fiducial
        THEN IF nu = 0 THEN "OutFV" ELSE "External"
        ELSE IF ccnc = 1 THEN "NC"
        ELSE IF Abs(nu) = 12 /\ ccnc = 0 THEN "ECCC"
        ELSE IF Abs(nu) = 14 /\ ccnc = 0
        THEN IF npi = 0 /\ r.n_p > 0 THEN "MuCC0pi_ge1p"
             ELSE IF npi = 1 /\ r.n_pi0 = 0 THEN "MuCC1pi"
             ELSE IF r.n_pi0 > 0 \/ r.n_gamma >= 2 THEN "MuCCPi0OrGamma"
             ELSE IF npi > 1 THEN "MuCCNpi"
             ELSE "MuCCOther"
        ELSE IF ccnc = 0 /\ s > 0
        THEN IF s = 1 THEN "CCS1" ELSE "CCSgt1"
        ELSE "Unknown"

\* the column analysis_channels of a simulation row
analysis_channels(r) ==
    LET nu == r.nu_pdg
        ccnc == r.int_ccnc
        s == count_strange(r.strange)
        npi == r.n_pi_minus + r.n_pi_plus
    IN  IF ~r.in_fiducial
        THEN IF nu = 0 THEN "OutFV" ELSE "External"
        ELSE IF ccnc = 1 THEN "NC"
        ELSE IF ccnc = 0 /\ s > 0
        THEN IF s = 1 THEN "CCS1" ELSE "CCSgt1"
        ELSE IF Abs(nu) = 12 /\ ccnc = 0 THEN "ECCC"
        ELSE IF Abs(nu) = 14 /\ ccnc = 0
        THEN IF npi = 0 /\ r.n_p > 0 THEN "MuCC0pi_ge1p"
             ELSE IF npi = 1 /\ r.n_pi0 = 0 THEN "MuCC1pi"
             ELSE IF r.n_pi0 > 0 \/ r.n_gamma >= 2 THEN "MuCCPi0OrGamma"
             ELSE IF npi > 1 THEN "MuCCNpi"
             ELSE "MuCCOther"
        ELSE "Unknown"

\* the fallback of an entry that is no simulation
nonmc_channel(source) ==
    IF source = "Ext" THEN "External"
    ELSE IF source = "Data" THEN "DataInclusive" ELSE "Unknown"

\* the signal flag set whenever the row is a muon-neutrino CC row
is_signal_IgnoresLambda(r) == r.is_nu_mu_cc

\* the column is_signal of a simulation row
is_signal(r) ==
    /\ r.is_nu_mu_cc
    /\ \E k \in 1..Len(r.lambda_decay_in_fid) : r.lambda_decay_in_fid[k] # 0

TruthInit ==
    /\ Idle
    /\ \E source \in Sources :
       \E r \in (IF source = "MC" THEN TruthRows ELSE {NoTruth}) :
           call = [fn |-> "truth", source |-> source, row |-> r,
                   at |-> "called"]

DefineAnalysisChannels ==
    /\ call.fn = "truth"
    /\ call.at = "called"
    /\ call' = [fn |-> "truth", source |-> call.source, row |-> call.row,
                at |-> "analysis_channels",
                analysis_channels |->
                    IF call.source = "MC" THEN analysis_channels(call.row)
                    ELSE nonmc_channel(call.source)]
    /\ UNCHANGED callFrame

DefineIsSignal ==
    /\ call.fn = "truth"
    /\ call.at = "analysis_channels"
    /\ call' = [fn |-> "truth", source |-> call.source, row |-> call.row,
                at |-> "is_signal",
                analysis_channels |-> call.analysis_channels,
                is_signal |-> IF call.source = "MC" THEN is_signal(call.row)
                              ELSE FALSE]
    /\ UNCHANGED callFrame

TruthNext ==
    \/ DefineAnalysisChannels
    \/ DefineIsSignal

SpecTruth == TruthInit /\ [][TruthNext]_vars

\* ---------------------------------- w_base, w_nominal (Processor::run)
\* Floating-point values by sign and magnitude: a finite non-zero value is
\* a power of two 2^e, exact in both formats. The sign of a zero is
\* dropped: no comparison of the code tells -0 from 0.
DoubleMaxExp == 1023
DoubleMinExp == -1074
FloatMaxExp == 127
FloatMinExp == -149

FNaN == [kind |-> "nan", neg |-> FALSE, e |-> 0]
FZero == [kind |-> "zero", neg |-> FALSE, e |-> 0]
FInf(neg) == [kind |-> "inf", neg |-> neg, e |-> 0]
FPow(neg, e) == [kind |-> "fin", neg |-> neg, e |-> e]
FOne == FPow(FALSE, 0)

\* a magnitude 2^e brought into a format: overflow to infinity, underflow
\* to zero
FRange(neg, e, emin, emax) ==
    IF e > emax THEN FInf(neg)
    ELSE IF e < emin THEN FZero
    ELSE FPow(neg, e)

\* static_cast<float> of a double
ToFloat(x) ==
    IF x.kind = "fin" THEN FRange(x.neg, x.e, FloatMinExp, FloatMaxExp)
    ELSE x

\* x / y in double, for x > 0 and y > 0
DoubleDiv(x, y) ==
    IF x.kind = "inf" /\ y.kind = "inf" THEN FNaN
    ELSE IF x.kind = "inf" THEN FInf(FALSE)
    ELSE IF y.kind = "inf" THEN FZero
    ELSE FRange(FALSE, x.e - y.e, DoubleMinExp, DoubleMaxExp)

\* x * y in float
FloatMul(x, y) ==
    LET neg == x.neg # y.neg
    IN  IF x.kind = "nan" \/ y.kind = "nan" THEN FNaN
        ELSE IF x.kind = "inf" \/ y.kind = "inf"
        THEN IF x.kind = "zero" \/ y.kind = "zero" THEN FNaN ELSE FInf(neg)
        ELSE IF x.kind = "zero" \/ y.kind = "zero" THEN FZero
        ELSE FRange(neg, x.e + y.e, FloatMinExp, FloatMaxExp)

IsFinite(x) == x.kind \in {"zero", "fin"}
IsPositive(x) == x.kind \in {"fin", "inf"} /\ ~x.neg
IsNegative(x) == x.kind \in {"fin", "inf"} /\ x.neg

\* the numbers a sample descriptor gives for pot, pot_eff, trig, trig_eff
\* (absent: 0.0)
ConfigNumbers ==
    { FZero, FPow(TRUE, 0), FOne, FPow(FALSE, 100), FPow(FALSE, -100),
      FPow(FALSE, 1000), FPow(FALSE, -1000) }

\* the values of the columns weightSpline and weightTune
RawWeights ==
    { FNaN, FInf(FALSE), FZero, FOne, FPow(TRUE, 0), FPow(FALSE, 100),
      FPow(FALSE, -100) }

scale_mc(rec) ==
    IF rec.source = "MC" /\ IsPositive(rec.pot_nom) /\ IsPositive(rec.pot_eqv)
    THEN DoubleDiv(rec.pot_nom, rec.pot_eqv) ELSE FOne

scale_ext(rec) ==
    IF rec.source = "Ext" /\ IsPositive(rec.trig_nom)
                          /\ IsPositive(rec.trig_eqv)
    THEN DoubleDiv(rec.trig_nom, rec.trig_eqv) ELSE FOne

w_base(rec) ==
    ToFloat(IF rec.source = "MC" THEN scale_mc(rec)
            ELSE IF rec.source = "Ext" THEN scale_ext(rec) ELSE FOne)

\* the product returned without the test of its sign
w_nominal_NoSignTest(source, w, w_spline, w_tune) ==
    IF source = "MC"
    THEN LET out == FloatMul(FloatMul(w, w_spline), w_tune)
         IN  IF ~IsFinite(out) THEN FZero ELSE out
    ELSE w

w_nominal(source, w, w_spline, w_tune) ==
    IF source = "MC"
    THEN LET out == FloatMul(FloatMul(w, w_spline), w_tune)
         IN  IF ~IsFinite(out) THEN FZero
             ELSE IF IsNegative(out) THEN FZero
             ELSE out
    ELSE w

\* the entries: a simulation with its exposure, a background estimate with
\* its trigger counts, a data entry
WeightEntries ==
    [source : {"MC"}, pot_nom : ConfigNumbers, pot_eqv : ConfigNumbers,
     trig_nom : {FZero}, trig_eqv : {FZero}]
    \cup [source : {"Ext"}, pot_nom : {FZero}, pot_eqv : {FZero},
          trig_nom : ConfigNumbers, trig_eqv : ConfigNumbers]
    \cup [source : {"Data"}, pot_nom : {FZero}, pot_eqv : {FZero},
          trig_nom : {FZero}, trig_eqv : {FZero}]

WeightInit ==
    /\ Idle
    /\ \E rec \in WeightEntries :
       \E ws \in (IF rec.source = "MC" THEN RawWeights ELSE {FOne}),
          wt \in (IF rec.source = "MC" THEN RawWeights ELSE {FOne}) :
           call = [fn |-> "weights", rec |-> rec, weightSpline |-> ws,
                   weightTune |-> wt, at |-> "called"]

DefineWBase ==
    /\ call.fn = "weights"
    /\ call.at = "called"
    /\ call' = [fn |-> "weights", rec |-> call.rec,
                weightSpline |-> call.weightSpline,
                weightTune |-> call.weightTune,
                at |-> "w_base", w_base |-> w_base(call.rec)]
    /\ UNCHANGED callFrame

DefineWNominal ==
    /\ call.fn = "weights"
    /\ call.at = "w_base"
    /\ call' = [fn |-> "weights", rec |-> call.rec,
                weightSpline |-> call.weightSpline,
                weightTune |-> call.weightTune,
                at |-> "w_nominal", w_base |-> call.w_base,
                w_nominal |-> w_nominal(call.rec.source, call.w_base,
                                        call.weightSpline, call.weightTune)]
    /\ UNCHANGED callFrame

WeightNext ==
    \/ DefineWBase
    \/ DefineWNominal

SpecWeight == WeightInit /\ [][WeightNext]_vars

\* ------------------------------------- Hub::Hub: the sample descriptors
\* samples of the configuration
MaxSamples == 2

Absent == "absent"

\* the "kind" strings of the descriptors, and their lower case
KindStrings ==
    { "data", "ext", "external", "mc", "MC", "beam", "strangeness", "dirt",
      "bogus" }

to_lower(str) == IF str = "MC" THEN "mc" ELSE str

\* the "slice" strings of the descriptors of kind mc
SliceStrings == { Absent, "beam", "strange", "bogus" }

\* the keys "files" and "file" of a descriptor, each present or not
FileKeys ==
    { [has_files |-> FALSE, files |-> <<>>, has_file |-> FALSE, file |-> ""],
      [has_files |-> TRUE, files |-> <<>>, has_file |-> FALSE, file |-> ""],
      [has_files |-> TRUE, files |-> <<"a.root">>, has_file |-> FALSE,
       file |-> ""],
      [has_files |-> FALSE, files |-> <<>>, has_file |-> TRUE, file |-> ""],
      [has_files |-> FALSE, files |-> <<>>, has_file |-> TRUE,
       file |-> "a.root"],
      [has_files |-> TRUE, files |-> <<>>, has_file |-> TRUE,
       file |-> "a.root"] }

\* a "slice" is given with the kind mc only
Descriptors ==
    { [kind |-> ks[1], slice |-> ks[2], keys |-> f] :
        ks \in { p \in KindStrings \X SliceStrings :
                   to_lower(p[1]) = "mc" \/ p[2] = Absent },
        f \in FileKeys }

Throw(what) == [thrown |-> TRUE, what |-> what]

parse_slice_opt(d) ==
    IF d.slice = Absent THEN [thrown |-> FALSE, slice |-> "None"]
    ELSE IF d.slice \in {"beam", "beaminclusive"}
    THEN [thrown |-> FALSE, slice |-> "BeamInclusive"]
    ELSE IF d.slice \in {"strange", "strangeness", "strangenessinclusive"}
    THEN [thrown |-> FALSE, slice |-> "StrangenessInclusive"]
    ELSE Throw("unknown slice")

\* an unknown kind taken for a simulation
parse_kind_slice_DefaultsToMC(kind, d) ==
    IF kind = "data"
    THEN [thrown |-> FALSE, source |-> "Data", slice |-> "None"]
    ELSE IF kind \in {"ext", "external"}
    THEN [thrown |-> FALSE, source |-> "Ext", slice |-> "None"]
    ELSE IF kind = "mc"
    THEN LET sl == parse_slice_opt(d)
         IN  IF sl.thrown THEN sl
             ELSE [thrown |-> FALSE, source |-> "MC", slice |-> sl.slice]
    ELSE IF kind = "beam"
    THEN [thrown |-> FALSE, source |-> "MC", slice |-> "BeamInclusive"]
    ELSE IF kind = "strangeness"
    THEN [thrown |-> FALSE, source |-> "MC",
          slice |-> "StrangenessInclusive"]
    ELSE [thrown |-> FALSE, source |-> "MC", slice |-> "None"]

parse_kind_slice(kind, d) ==
    IF kind = "data"
    THEN [thrown |-> FALSE, source |-> "Data", slice |-> "None"]
    ELSE IF kind \in {"ext", "external"}
    THEN [thrown |-> FALSE, source |-> "Ext", slice |-> "None"]
    ELSE IF kind = "mc"
    THEN LET sl == parse_slice_opt(d)
         IN  IF sl.thrown THEN sl
             ELSE [thrown |-> FALSE, source |-> "MC", slice |-> sl.slice]
    ELSE IF kind = "beam"
    THEN [thrown |-> FALSE, source |-> "MC", slice |-> "BeamInclusive"]
    ELSE IF kind = "strangeness"
    THEN [thrown |-> FALSE, source |-> "MC",
          slice |-> "StrangenessInclusive"]
    ELSE IF kind = "dirt"
    THEN [thrown |-> FALSE, source |-> "MC", slice |-> "None"]
    ELSE Throw("unknown kind")

\* rec.files of a descriptor
FilesOf(d) ==
    IF d.keys.has_files THEN [thrown |-> FALSE, files |-> d.keys.files]
    ELSE IF d.keys.has_file
    THEN [thrown |-> FALSE,
          files |-> IF d.keys.file = "" THEN <<>> ELSE << d.keys.file >>]
    ELSE Throw("sample missing 'file' or 'files'")

\* one descriptor of the loop: the entry pushed, or the exception
LoadSample(d) ==
    LET ks == parse_kind_slice(to_lower(d.kind), d)
        fs == FilesOf(d)
    IN  IF ks.thrown THEN ks
        ELSE IF fs.thrown THEN fs
        ELSE IF fs.files = <<>> THEN Throw("empty 'files' for sample")
        ELSE [thrown |-> FALSE,
              rec |-> [source |-> ks.source, slice |-> ks.slice,
                       files |-> fs.files, file |-> Head(fs.files)]]

NoCatalog == "none"

ConfigInit ==
    /\ Idle
    /\ \E samples \in SeqsUpTo(Descriptors, MaxSamples) :
           call = [fn |-> "Hub", samples |-> samples, i |-> 1,
                   bucket |-> <<>>, at |-> "samples", hub |-> NoCatalog]

\* the body of the loop over the samples
NextSample ==
    /\ call.fn = "Hub"
    /\ call.at = "samples"
    /\ call.i <= Len(call.samples)
    /\ LET r == LoadSample(call.samples[call.i])
       IN  call' = IF r.thrown
                   THEN [call EXCEPT !.at = "thrown", !.bucket = <<>>]
                   ELSE [call EXCEPT !.i = call.i + 1,
                                     !.bucket = Append(call.bucket, r.rec)]
    /\ UNCHANGED callFrame

\* the constructor returns: the catalog exists
Constructed ==
    /\ call.fn = "Hub"
    /\ call.at = "samples"
    /\ call.i > Len(call.samples)
    /\ call' = [call EXCEPT !.at = "built", !.hub = call.bucket]
    /\ UNCHANGED callFrame

ConfigNext ==
    \/ NextSample
    \/ Constructed

SpecConfig == ConfigInit /\ [][ConfigNext]_vars

\* ------------------------------------ selection::apply, evaluate
\* entries of the list given to the selection
MaxSelRows == 2

\* thresholds; scores and fractions in hundredths
trigger_min_beam_pe == 0
trigger_max_veto_pe == 20
slice_required_count == 1
slice_min_topology_score == 6
topology_min_contained_fraction == 0
topology_min_cluster_fraction == 50
muon_min_track_score == 50
muon_min_track_length == 10
muon_max_track_distance == 4
muon_required_generation == 2

Atoms == {"Trigger", "Slice", "Fiducial", "Topology", "Muon"}

\* a row that passes every atom, and rows at the thresholds
GoodRow ==
    [optical_filter_pe_beam |-> 1, optical_filter_pe_veto |-> 19,
     software_trigger |-> 1, num_slices |-> 1, topological_score |-> 7,
     in_reco_fiducial |-> TRUE, contained_fraction |-> 0,
     slice_cluster_fraction |-> 50, track_shower_scores |-> <<51>>,
     track_length |-> <<11>>, track_distance_to_vertex |-> <<3>>,
     pfp_generations |-> <<2>>]

RawRows ==
    { GoodRow,
      [GoodRow EXCEPT !.optical_filter_pe_beam = 0],
      [GoodRow EXCEPT !.optical_filter_pe_veto = 20],
      [GoodRow EXCEPT !.num_slices = 2],
      [GoodRow EXCEPT !.topological_score = 6],
      [GoodRow EXCEPT !.in_reco_fiducial = FALSE],
      [GoodRow EXCEPT !.slice_cluster_fraction = 49],
      [GoodRow EXCEPT !.track_shower_scores = <<>>, !.track_length = <<>>,
                      !.track_distance_to_vertex = <<>>,
                      !.pfp_generations = <<>>],
      [GoodRow EXCEPT !.track_length = <<10>>],
      [GoodRow EXCEPT !.track_shower_scores = <<50, 51>>,
                      !.track_length = <<11, 11>>,
                      !.track_distance_to_vertex = <<3, 3>>,
                      !.pfp_generations = <<2, 2>>],
      [GoodRow EXCEPT !.software_trigger = 0, !.pfp_generations = <<3>>] }

\* the entries of the list, of one row each
SelEntries ==
    { [source |-> "MC", row |-> r, w_nominal |-> wc[1],
       analysis_channels |-> wc[2]] :
        r \in RawRows, wc \in {<<1, "MuCC1pi">>, <<2, "NC">>} }
    \cup { [source |-> "Ext", row |-> r, w_nominal |-> 1,
            analysis_channels |-> nonmc_channel("Ext")] : r \in RawRows }

\* the predicate of the filter of an atom
AtomPasses(p, rec) ==
    LET r == rec.row
    IN  IF p = "Trigger"
        THEN IF rec.source = "MC"
             THEN /\ r.optical_filter_pe_beam > trigger_min_beam_pe
                  /\ r.optical_filter_pe_veto < trigger_max_veto_pe
                  /\ r.software_trigger > 0
             ELSE TRUE
        ELSE IF p = "Slice"
        THEN /\ r.num_slices = slice_required_count
             /\ r.topological_score > slice_min_topology_score
        ELSE IF p = "Fiducial" THEN r.in_reco_fiducial
        ELSE IF p = "Topology"
        THEN /\ r.contained_fraction >= topology_min_contained_fraction
             /\ r.slice_cluster_fraction >= topology_min_cluster_fraction
        ELSE \E i \in 1..Len(r.track_shower_scores) :
                 /\ r.track_shower_scores[i] > muon_min_track_score
                 /\ r.track_length[i] > muon_min_track_length
                 /\ r.track_distance_to_vertex[i] < muon_max_track_distance
                 /\ r.pfp_generations[i] = muon_required_generation

\* the composite without its last atom
apply_WithoutMuon(in, p, rec) ==
    IF p = "Empty" THEN in
    ELSE IF p \in Atoms THEN in /\ AtomPasses(p, rec)
    ELSE in /\ AtomPasses("Trigger", rec) /\ AtomPasses("Slice", rec)
            /\ AtomPasses("Fiducial", rec) /\ AtomPasses("Topology", rec)

\* an atom filtering the rows of the entry instead of the rows of the node
apply_FromBase(in, p, rec) ==
    IF p = "Empty" THEN in
    ELSE IF p \in Atoms THEN AtomPasses(p, rec)
    ELSE in /\ \A a \in Atoms : AtomPasses(a, rec)

\* apply(node, p, rec) on the row of the entry: in says whether the row
\* is in the node
apply(in, p, rec) ==
    IF p = "Empty" THEN in
    ELSE IF p \in Atoms THEN in /\ AtomPasses(p, rec)
    ELSE LET t == in /\ AtomPasses("Trigger", rec)
             sl == t /\ AtomPasses("Slice", rec)
             f == sl /\ AtomPasses("Fiducial", rec)
             tp == f /\ AtomPasses("Topology", rec)
         IN  tp /\ AtomPasses("Muon", rec)

\* the truth predicate the macros hand to evaluate
is_signal_truth(ch) ==
    ch \in {"MuCC0pi_ge1p", "MuCC1pi", "MuCCPi0OrGamma", "MuCCNpi",
            "MuCCOther"}

\* Sum("w_nominal") over the entries whose row is in the node
RECURSIVE sumw(_, _)
sumw(mc, in) ==
    IF mc = <<>> THEN 0
    ELSE (IF Head(in) THEN Head(mc).w_nominal ELSE 0)
         + sumw(Tail(mc), Tail(in))

\* numer / selected without the test of the denominator
Ratio_Unguarded(n, d) == [n |-> n, d |-> d]

\* EvalResult::efficiency, EvalResult::purity
Ratio(n, d) == IF d > 0 THEN [n |-> n, d |-> d] ELSE [n |-> 0, d |-> 1]

evaluate(mc, final_selection) ==
    LET truth == [k \in 1..Len(mc) |->
                     is_signal_truth(mc[k].analysis_channels)]
        sel == [k \in 1..Len(mc) |-> apply(TRUE, final_selection, mc[k])]
        num == [k \in 1..Len(mc) |-> sel[k] /\ truth[k]]
    IN  [denom |-> sumw(mc, truth), selected |-> sumw(mc, sel),
         numer |-> sumw(mc, num)]

SelectionInit ==
    /\ Idle
    /\ \E mc \in SeqsUpTo(SelEntries, MaxSelRows) :
           call = [fn |-> "selection", mc |-> mc, at |-> "base",
                   applied |-> {}, in |-> [k \in 1..Len(mc) |-> TRUE]]

\* one more atom applied to the nodes
ApplyAtom(p) ==
    /\ call.fn = "selection"
    /\ call.at \in {"base", "stage"}
    /\ p \notin call.applied
    /\ call' = [call EXCEPT
                   !.at = "stage",
                   !.applied = call.applied \cup {p},
                   !.in = [k \in 1..Len(call.mc) |->
                              apply(call.in[k], p, call.mc[k])]]
    /\ UNCHANGED callFrame

ApplyInclusiveMuCC ==
    /\ call.fn = "selection"
    /\ call.at = "base"
    /\ call' = [call EXCEPT
                   !.at = "composite",
                   !.in = [k \in 1..Len(call.mc) |->
                              apply(call.in[k], "InclusiveMuCC", call.mc[k])]]
    /\ UNCHANGED callFrame

Evaluate ==
    /\ call.fn = "selection"
    /\ call.at = "base"
    /\ LET out == evaluate(call.mc, "InclusiveMuCC")
       IN  call' = [fn |-> "selection", mc |-> call.mc, at |-> "evaluated",
                    applied |-> call.applied, in |-> call.in, out |-> out,
                    efficiency |-> Ratio(out.numer, out.denom),
                    purity |-> Ratio(out.numer, out.selected)]
    /\ UNCHANGED callFrame

SelectionNext ==
    \/ \E p \in Atoms : ApplyAtom(p)
    \/ ApplyInclusiveMuCC
    \/ Evaluate

SpecSelection == SelectionInit /\ [][SelectionNext]_vars

\* --------------------------------------------------- snapshot::write
\* samples of the list given to snapshot::write
MaxSnapshots == 2

\* the entries by what names them: origin, source, slice, period
SnapshotEntries ==
    { [kind |-> ks[1], source |-> ks[2], slice |-> ks[3], period |-> per] :
        ks \in { <<"other", "Data", "None">>, <<"other", "Ext", "None">>,
                 <<"other", "MC", "None">>,
                 <<"other", "MC", "BeamInclusive">>,
                 <<"other", "MC", "StrangenessInclusive">>,
                 <<"dirt", "MC", "None">> },
        per \in {"run1", "run2"} }

\* the null pointer of the list
NullEntry == [kind |-> "null", source |-> "null", slice |-> "null",
              period |-> "null"]

source_to_string(src) ==
    IF src = "Data" THEN "data"
    ELSE IF src = "Ext" THEN "ext"
    ELSE IF src = "MC" THEN "mc" ELSE "unknown"

slice_to_string(sl) ==
    IF sl = "None" THEN "none"
    ELSE IF sl = "BeamInclusive" THEN "beam"
    ELSE IF sl = "StrangenessInclusive" THEN "strangeness" ELSE "unknown"

sample_label(e) ==
    IF e.kind = "dirt" THEN "dirt"
    ELSE IF e.source = "MC"
    THEN IF slice_to_string(e.slice) = "none" THEN "mc"
         ELSE slice_to_string(e.slice)
    ELSE source_to_string(e.source)

\* opt.tree, and what sanitise makes of it
TreeOptions == {"analysis", "my tree"}
sanitise(str) == IF str = "my tree" THEN "my_tree" ELSE str

\* the name is the two parts joined by "_"; no detvar is given by write
make_tree_name(tree, e) == << sanitise(tree), sanitise(sample_label(e)) >>

\* the file before the call: absent, empty, or with sub-tables of earlier
\* calls (written by "before")
NoFile == [exists |-> FALSE, trees |-> {}]
FilesBefore ==
    { NoFile, [exists |-> TRUE, trees |-> {}],
      [exists |-> TRUE,
       trees |-> {[name |-> <<"analysis", "mc">>, by |-> 0]}],
      [exists |-> TRUE,
       trees |-> {[name |-> <<"old", "data">>, by |-> 0]}] }

\* RDataFrame::Snapshot with fOverwriteIfExists: RECREATE truncates the
\* file, UPDATE keeps it and replaces a sub-table of the same name
Snapshot(file, mode, name, by) ==
    [exists |-> TRUE,
     trees |-> {t \in (IF mode = "RECREATE" THEN {} ELSE file.trees) :
                   t.name # name} \cup {[name |-> name, by |-> by]}]

\* the flag left as it was after a snapshot
snapshot_once_KeepsFlag(file, fileExists, name, by) ==
    LET mode == IF fileExists THEN "UPDATE" ELSE "RECREATE"
    IN  [file |-> Snapshot(file, mode, name, by), mode |-> mode,
         fileExists |-> fileExists]

snapshot_once(file, fileExists, name, by) ==
    LET mode == IF fileExists THEN "UPDATE" ELSE "RECREATE"
    IN  [file |-> Snapshot(file, mode, name, by), mode |-> mode,
         fileExists |-> TRUE]

WriteInit ==
    /\ Idle
    /\ \E samples \in SeqsUpTo(SnapshotEntries \cup {NullEntry}, MaxSnapshots),
          tree \in TreeOptions, before \in FilesBefore :
           call = [fn |-> "write", samples |-> samples, tree |-> tree,
                   before |-> before, file |-> before,
                   fileExists |-> before.exists, i |-> 1, modes |-> <<>>,
                   at |-> "loop"]

\* the body of the loop over the samples
WriteSample ==
    /\ call.fn = "write"
    /\ call.at = "loop"
    /\ call.i <= Len(call.samples)
    /\ LET e == call.samples[call.i]
           r == snapshot_once(call.file, call.fileExists,
                              make_tree_name(call.tree, e), call.i)
       IN  call' = IF e = NullEntry
                   THEN [call EXCEPT !.i = call.i + 1]
                   ELSE [call EXCEPT !.i = call.i + 1,
                                     !.file = r.file,
                                     !.fileExists = r.fileExists,
                                     !.modes = Append(call.modes, r.mode)]
    /\ UNCHANGED callFrame

WriteReturn ==
    /\ call.fn = "write"
    /\ call.at = "loop"
    /\ call.i > Len(call.samples)
    /\ call' = [call EXCEPT !.at = "returned"]
    /\ UNCHANGED callFrame

WriteNext ==
    \/ WriteSample
    \/ WriteReturn

SpecWrite == WriteInit /\ [][WriteNext]_vars

Init == HubInit
Next == HubNext
Spec == Init /\ [][Next]_vars
\* ======================================================================
\* Claims
\* ======================================================================
\* the nominal rows of the simulation entries of the catalog
SimRows == {<<e, i>> : e \in 1..Len(db_), i \in 1..MaxRows} \cap
           {p \in (1..3) \X (1..MaxRows) :
               p[1] <= Len(db_) /\ db_[p[1]].source = "MC"
               /\ p[2] <= Len(db_[p[1]].rows)}

RowAt(p) == db_[p[1]].rows[p[2]]
FrameAt(p) == db_[p[1]].nominal

ClassScale(is_sig) ==
    IF is_sig THEN signal_analysis_scale_ ELSE background_analysis_scale_
ClassIds(is_sig) ==
    IF is_sig THEN training_signal_ids_ ELSE training_background_ids_
ClassCandidates(is_sig) == IF is_sig THEN sig_candidates ELSE bkg_candidates
ClassTotal(is_sig) == IF is_sig THEN total_sig_weight ELSE total_bkg_weight
ClassSel(is_sig) == IF is_sig THEN sig_sel ELSE bkg_sel
ClassQuota(is_sig) == IF is_sig THEN kTrainingNSignal ELSE kTrainingNBackground

RECURSIVE RatSum(_)
RatSum(S) ==
    IF S = {} THEN Rat(0, 1)
    ELSE LET p == CHOOSE x \in S : TRUE
         IN  RatAdd(w_analysis(FrameAt(p), RowAt(p)), RatSum(S \ {p}))

RECURSIVE NominalSum(_)
NominalSum(S) ==
    IF S = {} THEN 0
    ELSE LET p == CHOOSE x \in S : TRUE
         IN  RowAt(p).w_nominal + NominalSum(S \ {p})

\* C1: during construction the partition is fully built (StoreSets has
\* written the id sets and both factors) before any annotation is created
\* by Hub::sample, and the constructor returns only with every entry
\* annotated.
C1_PartitionBeforeAnnotation ==
    /\ (db_ # <<>>) => pc = "done"
    /\ (pc = "done") => Len(db_) = Len(config)

\* C2: in a constructed Hub, a simulation row with a positive weight that
\* is not in training has w_analysis = w_nominal * the factor the builder
\* stored for its class.
C2_AnalysisWeightUsesBuiltScale ==
    (pc = "done") =>
        \A p \in SimRows :
            (RowAt(p).w_nominal > 0 /\ ~is_training(FrameAt(p), RowAt(p))) =>
                RatEq(w_analysis(FrameAt(p), RowAt(p)),
                      RatMul(Rat(RowAt(p).w_nominal, 1),
                             ClassScale(RowAt(p).is_signal)))

\* C3: weight conservation.  For each class whose candidate total exceeds
\* its training weight, the w_analysis of the class's simulation rows sum
\* to the nominal weight of its valid rows.
C3_WeightConservation ==
    (pc = "done") =>
        \A cls \in BOOLEAN :
            (ClassTotal(cls) > ClassSel(cls).sum_weight) =>
                LET rows == {p \in SimRows : RowAt(p).is_signal = cls}
                IN  RatEq(RatSum(rows),
                          Rat(NominalSum({p \in rows : RowAt(p).w_nominal > 0}), 1))

\* the candidate lists the scan can build for a class: the entries in
\* catalog order, the rows of each entry in any order
RECURSIVE ScanOrders(_, _)
ScanOrders(e, cls) ==
    IF e > Len(db_) THEN {<<>>}
    ELSE LET rows == db_[e].rows
             mine == IF db_[e].source # "MC" THEN {}
                     ELSE {i \in 1..Len(rows) :
                              Accepted(rows[i]) /\ rows[i].is_signal = cls}
             orders == {o \in [1..Cardinality(mine) -> mine] :
                           \A a, b \in 1..Cardinality(mine) : o[a] = o[b] => a = b}
         IN  {[k \in 1..Len(o) |-> CandidateOf(rows[o[k]])] \o rest :
                 o \in orders, rest \in ScanOrders(e + 1, cls)}

\* two candidate lists on which a comparison-based nth_element sees the
\* same outcome of every comparison, and so moves the same positions
SamePattern(c1, c2) ==
    /\ Len(c1) = Len(c2)
    /\ \A i, j \in 1..Len(c1) :
           RatLess(c1[i].key, c1[j].key) <=> RatLess(c2[i].key, c2[j].key)

\* C4: reproducibility.  The ids and the factor this run stored are the
\* ones every run on the same corpus stores, whatever the order in which
\* the workers append the rows of an entry (nth_element moving positions
\* the way it did in this run).
C4_Reproducible ==
    (pc = "done") =>
        \A cls \in BOOLEAN :
            LET c1 == ClassCandidates(cls)
                n == ClassQuota(cls)
            IN  \A c2 \in ScanOrders(1, cls) :
                    IF c1 = <<>> \/ n = 0 \/ Len(c1) <= n
                    THEN \A sel \in select_top(c2, n) :
                            /\ sel.ids = ClassIds(cls)
                            /\ RatEq(AnalysisScale(SumWeight(c2), sel), ClassScale(cls))
                    ELSE SamePattern(c1, c2) =>
                            \A p \in Bijections(Len(c1)) :
                                (/\ Arrange(c1, p) \in NthElement(c1, Len(c1) - n + 1)
                                 /\ SelectFrom(Arrange(c1, p), n) = ClassSel(cls)) =>
                                    LET sel == SelectFrom(Arrange(c2, p), n)
                                    IN  /\ sel.ids = ClassIds(cls)
                                        /\ RatEq(AnalysisScale(SumWeight(c2), sel),
                                                 ClassScale(cls))
\* the weight of the candidates of a class whose ids are in its training set
RECURSIVE WeightOfIds(_, _)
WeightOfIds(cs, ids) ==
    IF cs = <<>> THEN 0
    ELSE (IF Head(cs).event_key \in ids THEN Head(cs).weight ELSE 0)
         + WeightOfIds(Tail(cs), ids)

\* C9: the stored factor is total / (total - training_weight) when that
\* difference is positive and 1 otherwise, with total the weight of all
\* candidates of the class and training_weight the weight of the candidates
\* whose ids are in the training set.
C9_RescaleFromSelectedIds ==
    (pc = "done") =>
        \A cls \in BOOLEAN :
            LET total == SumWeight(ClassCandidates(cls))
                training == WeightOfIds(ClassCandidates(cls), ClassIds(cls))
            IN  RatEq(ClassScale(cls),
                      IF total - training > 0 THEN Rat(total, total - training)
                      ELSE RatOne)

\* a caller has evaluated a row of a simulation view
ObsSim == obs.view \in {"nominal", "detvar"} /\ db_[obs.entry].source = "MC"

C7_TrainingFlagIsMembership ==
    (node.at \in {"done", "thrown"} /\ node.source = "MC") =>
        /\ ~node.thrown
        /\ IsTrainingColumn(node) <=>
               RowKey(node.row) \in ClassIds(node.row.is_signal)
\* rows of the scanned entry that the Foreach callback turns into a
\* candidate of the class
AcceptedRows(cls) ==
    {i \in 1..MaxRows : /\ Accepted(db_[1].rows[i])
                        /\ db_[1].rows[i].is_signal = cls}

Min(a, b) == IF a < b THEN a ELSE b

\* C8: select_top returns exactly N ids when the class has more than N
\* candidates and the ids of all candidates when it has at most N, so the
\* set has min(N, number of candidates) ids.
C8_ExactQuota ==
    (pc \in {"store", "done"}) =>
        /\ (Len(sig_candidates) > sel_n) => Cardinality(sig_sel.ids) = sel_n
        /\ (Len(sig_candidates) <= sel_n) => sig_sel.ids = IdsOf(sig_candidates)
        /\ Cardinality(sig_sel.ids) = Min(sel_n, Len(sig_candidates))

\* C10: with no candidate or a quota of zero the builder stores an empty
\* training set and a rescale factor of 1, and no step of it fails.
C10_DegeneracyIsNoError ==
    (sig_candidates = <<>> \/ sel_n = 0) =>
        /\ (pc = "scan") => ENABLED ApplySelectTop
        /\ (pc = "store") => sig_sel = EmptySelection /\ ENABLED ApplyStore
        /\ (pc = "done") =>
               /\ training_signal_ids_ = {}
               /\ signal_analysis_scale_.d > 0
               /\ RatEq(signal_analysis_scale_, RatOne)

\* the builder has finished for a class with candidates and a quota of zero
C10_Witness == pc = "done" /\ sig_candidates # <<>> /\ sel_n = 0
\* the nominal simulation rows of a class with an invalid weight
InvalidRows(cls) ==
    {p \in SimRows : RowAt(p).is_signal = cls /\ RowAt(p).w_nominal <= 0}

\* what the scan keeps out of the candidate lists and the totals, and the
\* analysis weight of an invalid row
InvalidRowsAreNoCandidates ==
    /\ \A cls \in BOOLEAN :
           /\ \A i \in 1..Len(ClassCandidates(cls)) :
                  ClassCandidates(cls)[i].weight > 0
           /\ ClassTotal(cls) = SumWeight(ClassCandidates(cls))
           /\ ClassIds(cls) \subseteq IdsOf(ClassCandidates(cls))
    /\ (pc \in {"store", "done"}) =>
           \A cls \in BOOLEAN :
               Len(ClassCandidates(cls)) =
                   Cardinality({p \in SimRows : /\ RowAt(p).is_signal = cls
                                                /\ Accepted(RowAt(p))})
    /\ (pc = "done") =>
           \A cls \in BOOLEAN : \A p \in InvalidRows(cls) :
               w_analysis(FrameAt(p), RowAt(p)).n = 0

C12_NonSimulationUntouched ==
    (node.at \in {"done", "thrown"} /\ node.source # "MC"
        /\ node.slice = "None") =>
        /\ ~node.thrown
        /\ ~IsTrainingColumn(node)
        /\ [name |-> "w_analysis", by |-> "Hub::sample"] \in node.columns
\* C13: build_training_sets is entered once, from the end of the sample
\* loop, and the constructor returns only from its end; the two id sets and
\* the two rescale factors are written only by its last step, and no step
\* after the constructor has returned changes them.
C13_BuiltOnceThenFrozen ==
    [][LET members == << training_signal_ids_, training_background_ids_,
                         signal_analysis_scale_, background_analysis_scale_ >>
       IN  /\ (members' # members) => (pc = "store" /\ pc' = "done")
           /\ (pc # "load") => (pc' # "load")
           /\ (pc' = "done") => (pc \in {"store", "done"})
           /\ (pc = "done") => (pc' = "done")]_vars

\* after the constructor returned with a training id, a caller has called
\* one of sample, simulation_entries, data_entries
C13_Witness ==
    /\ pc = "done"
    /\ training_background_ids_ # {}
    /\ obs.view \in {"sample", "simulation_entries", "data_entries"}
\* run fits bits 42-63, sub bits 21-41, evt bits 0-20
InKeyDomain(t) ==
    /\ 0 <= t[1] /\ t[1] < 2^22
    /\ 0 <= t[2] /\ t[2] < 2^21
    /\ 0 <= t[3] /\ t[3] < 2^21

\* C14: two distinct triples whose fields fit their bit ranges never get
\* the same key; the key of such a triple holds each field unchanged in
\* its own bit range.
C14_KeyInjectiveOnDomain ==
    (call.fn = "make_event_key" /\ call.at = "returned") =>
        /\ (InKeyDomain(call.a) /\ InKeyDomain(call.b) /\ call.a # call.b) =>
               call.key_a # call.key_b
        /\ InKeyDomain(call.a) => call.key_a = call.a

\* keys were computed for two triples of the domain that sit on either
\* side of a field boundary: the largest event number, and subrun 1
C14_Witness ==
    /\ call.fn = "make_event_key" /\ call.at = "returned"
    /\ call.a = <<0, 0, 2^21 - 1>>
    /\ call.b = <<0, 1, 0>>
    /\ call.key_a # call.key_b
\* C15: the variate of every hash is strictly between 0 and 1, so the
\* callback builds a candidate for every row with a valid weight.
C15_UniformStrictlyInside ==
    /\ (call.fn = "callback" /\ call.at \in {"uniform", "candidate", "returned"}
           /\ call.w_nominal > 0) =>
           /\ ~UniformIsZero(call.u)
           /\ UniformBelowOne(call.u)
    /\ (call.fn = "callback" /\ call.at = "returned") => call.w_nominal <= 0
\* the entries of a source under the beamline and the periods of the call
RefsOfSource(c, source) ==
    IF c.beamline \notin DOMAIN c.db THEN {}
    ELSE { r \in {c.beamline} \X (DOMAIN c.db[c.beamline]) \X (1..MaxEntries) :
             /\ \E k \in 1..Len(c.periods) : c.periods[k] = r[2]
             /\ r[3] <= Len(c.db[c.beamline][r[2]])
             /\ c.db[c.beamline][r[2]][r[3]].source = source }

Range(q) == {q[k] : k \in 1..Len(q)}

\* C16: simulation_entries returns exactly the MC entries under the
\* beamline and the periods, data_entries exactly the Data entries; an
\* unknown beamline gives an empty list and an unknown period adds nothing.
C16_EntriesByKind ==
    /\ (call.fn = "entries" /\ call.at = "simulation_entries") =>
           Range(call.out) = RefsOfSource(call, "MC")
    /\ (call.fn = "entries" /\ call.at = "data_entries") =>
           Range(call.out) = RefsOfSource(call, "Data")
    /\ (call.fn = "entries" /\ call.at # "called"
           /\ call.beamline \notin DOMAIN call.db) => call.out = <<>>
\* no rule of the classification matches the row
NoRuleMatches(r) ==
    /\ r.in_fiducial
    /\ r.int_ccnc # 1
    /\ ~(r.int_ccnc = 0 /\ count_strange(r.strange) > 0)
    /\ ~(r.int_ccnc = 0 /\ Abs(r.nu_pdg) \in {12, 14})

\* C17: every combination of the classification's inputs gets one label
\* of the channel enumeration, and a combination no rule matches gets the
\* label Unknown.
C17_ClassificationTotal ==
    (call.fn = "truth" /\ call.at # "called") =>
        /\ call.analysis_channels \in Channel
        /\ (call.source = "MC" /\ NoRuleMatches(call.row)) =>
               call.analysis_channels = "Unknown"

C17_Witness ==
    /\ call.fn = "truth" /\ call.at = "analysis_channels"
    /\ call.source = "MC" /\ NoRuleMatches(call.row)
    /\ call.analysis_channels = "Unknown"
\* C18 as stated: the signal flag of a simulation row is decided by its
\* channel label, so every row with the same label has the same flag.
C18_SignalDecidedByChannel ==
    (call.fn = "truth" /\ call.at = "is_signal" /\ call.source = "MC") =>
        \A r \in TruthRows :
            analysis_channels(r) = call.analysis_channels =>
                is_signal(r) = call.is_signal

\* C18 as amended: the signal flag of a simulation row is true exactly when
\* the row's is_nu_mu_cc flag is true and some element of
\* lambda_decay_in_fid is non-zero, whatever its channel label; rows of
\* Data and Ext entries have the flag false.
C18_SignalFromTruthFlags ==
    (call.fn = "truth" /\ call.at = "is_signal") =>
        LET lam == call.row.lambda_decay_in_fid
            decays == {k \in DOMAIN lam : lam[k] # 0}
        IN  /\ call.is_signal =>
                (call.source = "MC" /\ call.row.is_nu_mu_cc /\ decays # {})
            /\ (call.source = "MC" /\ call.row.is_nu_mu_cc /\ decays # {}) =>
                call.is_signal

\* a muon-neutrino CC row with a lambda decay in the fiducial volume whose
\* label is none of the strange channels
C18_Witness ==
    /\ call.fn = "truth" /\ call.at = "is_signal" /\ call.source = "MC"
    /\ call.is_signal
    /\ call.analysis_channels \notin {"CCS1", "CCSgt1"}
\* the nominal weight has been defined
WNominalDefined == call.fn = "weights" /\ call.at = "w_nominal"

\* the nominal weight of a simulation row is the product of the base
\* weight and the two row weights, or 0 where the product is not finite or
\* is negative; the nominal weight of any other row is the base weight
NominalWeightByKind ==
    WNominalDefined =>
        LET product == FloatMul(FloatMul(call.w_base, call.weightSpline),
                                call.weightTune)
        IN  IF call.rec.source = "MC"
            THEN /\ (IsFinite(product) /\ ~IsNegative(product)) =>
                        call.w_nominal = product
                 /\ (~IsFinite(product) \/ IsNegative(product)) =>
                        call.w_nominal = FZero
            ELSE call.w_nominal = call.w_base

\* C19 as stated: the nominal weight is the clamped product for
\* simulation rows and the base weight for the other rows, hence finite
\* and never negative for every row of every entry.
C19_NominalWeightFiniteEverywhere ==
    /\ NominalWeightByKind
    /\ WNominalDefined =>
           (IsFinite(call.w_nominal) /\ ~IsNegative(call.w_nominal))

\* C19 as amended: the nominal weight is the clamped product for
\* simulation rows and the base weight for the other rows; it is never
\* negative and never NaN, it is finite for every row of a simulation or
\* data entry, and for a background-estimate entry it is finite unless the
\* trigger ratio is beyond the largest float.
C19_NominalWeightFiniteButExt ==
    /\ NominalWeightByKind
    /\ WNominalDefined =>
           /\ ~IsNegative(call.w_nominal)
           /\ call.w_nominal.kind # "nan"
           /\ (call.rec.source # "Ext") => IsFinite(call.w_nominal)
           /\ (call.rec.source = "Ext" /\ ~IsFinite(call.w_nominal)) =>
                  /\ IsPositive(call.rec.trig_nom)
                  /\ IsPositive(call.rec.trig_eqv)
                  /\ call.rec.trig_nom.e - call.rec.trig_eqv.e > FloatMaxExp

\* a simulation row whose product is negative, clamped to 0
C19_Witness ==
    /\ WNominalDefined
    /\ call.rec.source = "MC"
    /\ IsNegative(FloatMul(FloatMul(call.w_base, call.weightSpline),
                           call.weightTune))
    /\ call.w_nominal = FZero
\* a descriptor with an unknown kind, without 'file' and 'files', or with
\* an empty file list
BadDescriptor(d) ==
    \/ to_lower(d.kind) \notin
           {"data", "ext", "external", "mc", "beam", "strangeness", "dirt"}
    \/ ~d.keys.has_files /\ ~d.keys.has_file
    \/ d.keys.has_files /\ d.keys.files = <<>>

\* C20: a configuration with a descriptor of unknown kind, without 'file'
\* and 'files', or with an empty file list never yields a catalog (the
\* constructor throws and nothing loaded is exposed), and every entry of a
\* constructed catalog has at least one file.
C20_ConfigErrorsFatal ==
    (call.fn = "Hub") =>
        /\ (\E k \in 1..Len(call.samples) : BadDescriptor(call.samples[k]))
               => (call.at # "built" /\ call.hub = NoCatalog)
        /\ (call.at # "thrown") =>
               \A k \in 1..(call.i - 1) : ~BadDescriptor(call.samples[k])
        /\ (call.at = "thrown") =>
               (call.hub = NoCatalog /\ call.bucket = <<>>)
        /\ (call.at = "built") =>
               \A k \in 1..Len(call.hub) : Len(call.hub[k].files) >= 1

\* the second descriptor is in error: the entry loaded from the first one
\* is gone with the exception
C20_Witness ==
    /\ call.fn = "Hub" /\ call.at = "thrown"
    /\ call.i = 2
    /\ BadDescriptor(call.samples[2])
    /\ call.hub = NoCatalog
\* the entries of the call whose row passes all five atoms
PassAllAtoms(c) ==
    [k \in 1..Len(c.mc) |-> \A p \in Atoms : AtomPasses(p, c.mc[k])]

\* C21: the composite InclusiveMuCC keeps exactly the rows that pass all
\* five atoms, and the five atoms applied one after another in any order
\* keep the same rows.
C21_CompositeIsConjunction ==
    (call.fn = "selection") =>
        /\ (call.at = "composite") => call.in = PassAllAtoms(call)
        /\ (call.at = "stage" /\ call.applied = Atoms) =>
               call.in = PassAllAtoms(call)

\* a row failing two atoms has gone, and a row passing all five is kept,
\* once the five atoms are applied
C21_Witness ==
    /\ call.fn = "selection" /\ call.at = "stage" /\ call.applied = Atoms
    /\ Len(call.mc) = 2
    /\ call.in[1] /\ ~call.in[2]
    /\ ~AtomPasses("Trigger", call.mc[2]) /\ ~AtomPasses("Muon", call.mc[2])
\* the rows in the nodes of a call, their weight and their signal weight
SelectedCount(c) == Cardinality({k \in 1..Len(c.mc) : c.in[k]})
SelectedWeight(c) == sumw(c.mc, c.in)
SelectedSignalWeight(c) ==
    sumw(c.mc, [k \in 1..Len(c.mc) |->
                   c.in[k] /\ is_signal_truth(c.mc[k].analysis_channels)])

\* C22: from each stage of the cutflow to the next (one more atom
\* applied) the selected row count, the selected weight and the selected
\* signal weight do not increase.
C22_CutflowNonIncreasing ==
    [][(call.fn = "selection" /\ call'.at = "stage") =>
          /\ SelectedCount(call') <= SelectedCount(call)
          /\ SelectedWeight(call') <= SelectedWeight(call)
          /\ SelectedSignalWeight(call') <= SelectedSignalWeight(call)]_vars

\* Trigger then Slice applied: one row fell at Trigger, the other at Slice
C22_Witness ==
    /\ call.fn = "selection" /\ call.at = "stage"
    /\ call.applied = {"Trigger", "Slice"}
    /\ Len(call.mc) = 2
    /\ ~AtomPasses("Trigger", call.mc[1]) /\ AtomPasses("Slice", call.mc[1])
    /\ AtomPasses("Trigger", call.mc[2]) /\ ~AtomPasses("Slice", call.mc[2])
    /\ SelectedCount(call) = 0
\* the nominal weight of the entries with index in K
RECURSIVE WeightOver(_, _)
WeightOver(mc, K) ==
    IF K = {} THEN 0
    ELSE LET k == CHOOSE x \in K : TRUE
         IN  mc[k].w_nominal + WeightOver(mc, K \ {k})

\* C23: evaluate returns denom = the weight of the truth-signal rows,
\* selected = the weight of the rows passing the preset, numer = the weight
\* of the rows that are both; efficiency is numer/denom and purity is
\* numer/selected, each 0 when its denominator is not positive; numer is
\* at most denom and at most selected and both ratios lie in [0, 1].
C23_EvaluateTotals ==
    (call.fn = "selection" /\ call.at = "evaluated") =>
        LET mc == call.mc
            truth == {k \in 1..Len(mc) :
                         is_signal_truth(mc[k].analysis_channels)}
            pass == {k \in 1..Len(mc) : \A p \in Atoms : AtomPasses(p, mc[k])}
            eff == call.efficiency
            pur == call.purity
        IN  /\ call.out.denom = WeightOver(mc, truth)
            /\ call.out.selected = WeightOver(mc, pass)
            /\ call.out.numer = WeightOver(mc, pass \cap truth)
            /\ call.out.numer <= call.out.denom
            /\ call.out.numer <= call.out.selected
            /\ IF call.out.denom > 0
               THEN eff = [n |-> call.out.numer, d |-> call.out.denom]
               ELSE eff.n = 0 /\ eff.d > 0
            /\ IF call.out.selected > 0
               THEN pur = [n |-> call.out.numer, d |-> call.out.selected]
               ELSE pur.n = 0 /\ pur.d > 0
            /\ 0 <= eff.n /\ eff.n <= eff.d
            /\ 0 <= pur.n /\ pur.n <= pur.d

\* a signal row is selected and a background row too, and nothing else is
\* signal: efficiency 1/1, purity 1/3
C23_Witness ==
    /\ call.fn = "selection" /\ call.at = "evaluated"
    /\ call.out = [denom |-> 1, selected |-> 3, numer |-> 1]
    /\ call.efficiency = [n |-> 1, d |-> 1]
    /\ call.purity = [n |-> 1, d |-> 3]
\* the names of the sub-tables written so far by the call
WrittenNames(c) ==
    {make_tree_name(c.tree, c.samples[k]) :
        k \in {j \in 1..(c.i - 1) : c.samples[j] # NullEntry}}

\* C24: the file is created (RECREATE) only by the first snapshot of a
\* call and only if it did not exist when the call began; every other
\* snapshot opens it in UPDATE mode; no sub-table of the file, from before
\* the call or from earlier in the call, is lost to the file mode: a
\* sub-table goes only when one of the same name is written.
C24_CreateIfAbsentElseAppend ==
    (call.fn = "write") =>
        /\ \A k \in 1..Len(call.modes) :
               call.modes[k] = (IF k = 1 /\ ~call.before.exists
                                THEN "RECREATE" ELSE "UPDATE")
        /\ \A t \in call.before.trees :
               t.name \notin WrittenNames(call) => t \in call.file.trees
        /\ \A n \in WrittenNames(call) :
               \E t \in call.file.trees : t.name = n /\ t.by > 0

\* the file was absent: the first snapshot created it, the second one
\* added a sub-table beside the first
C24_Witness ==
    /\ call.fn = "write" /\ call.at = "returned"
    /\ ~call.before.exists
    /\ call.modes = <<"RECREATE", "UPDATE">>
    /\ Cardinality(call.file.trees) = 2

\* C30: after write returns the file holds one sub-table for each
\* non-null sample of the list: the names of the samples of a call are
\* distinct, and no sample's sub-table is overwritten by a later sample.
C30_OneSubTablePerSample ==
    (call.fn = "write" /\ call.at = "returned") =>
        \A k \in 1..Len(call.samples) :
            (call.samples[k] # NullEntry) =>
                [name |-> make_tree_name(call.tree, call.samples[k]),
                 by |-> k] \in call.file.trees
\* the n-th largest sampling key of the candidates (1 <= n <= Len(cands))
NthLargestKey(cands, n) ==
    LET K == CHOOSE k \in 1..Len(cands) :
                 /\ Cardinality({j \in 1..Len(cands) :
                        RatLess(cands[k].key, cands[j].key)}) < n
                 /\ Cardinality({j \in 1..Len(cands) :
                        ~RatLess(cands[j].key, cands[k].key)}) >= n
    IN  cands[K].key

\* C25: with more than N candidates, no selected candidate has a sampling
\* key below that of a candidate that was not selected, and every
\* candidate with a key above the N-th largest key is selected.
C25_TopNByKey ==
    (pc \in {"store", "done"} /\ sel_n >= 1 /\ Len(sig_candidates) > sel_n) =>
        LET cands == sig_candidates
            selected(i) == cands[i].event_key \in sig_sel.ids
        IN  /\ \A i, j \in 1..Len(cands) :
                   (selected(i) /\ ~selected(j)) =>
                       ~RatLess(cands[i].key, cands[j].key)
            /\ \A i \in 1..Len(cands) :
                   RatLess(NthLargestKey(cands, sel_n), cands[i].key) =>
                       selected(i)
\* C26: among candidates (of distinct events) whose sampling key equals
\* the cutoff, the quota is filled in the order in which the scan appended
\* them: a tied candidate is selected only if every tied candidate
\* appended before it is selected.
C26_TiesInFirstSeenOrder ==
    (/\ pc \in {"store", "done"} /\ sel_n >= 1
     /\ Len(sig_candidates) > sel_n
     /\ \A i, j \in 1..Len(sig_candidates) :
            sig_candidates[i].event_key = sig_candidates[j].event_key
                => i = j) =>
        LET cands == sig_candidates
            cutoff == NthLargestKey(cands, sel_n)
            tied(i) == RatEq(cands[i].key, cutoff)
            selected(i) == cands[i].event_key \in sig_sel.ids
        IN  \A i, j \in 1..Len(cands) :
                (i < j /\ tied(i) /\ tied(j) /\ selected(j)) => selected(i)
\* the rule list of the classification: whether rule k applies to the row,
\* and the label it gives
RuleMatches(k, r) ==
    LET s == count_strange(r.strange)
    IN  IF k = 1 THEN ~r.in_fiducial
        ELSE IF k = 2 THEN r.int_ccnc = 1
        ELSE IF k = 3 THEN r.int_ccnc = 0 /\ s > 0
        ELSE IF k = 4 THEN Abs(r.nu_pdg) = 12 /\ r.int_ccnc = 0
        ELSE IF k = 5 THEN Abs(r.nu_pdg) = 14 /\ r.int_ccnc = 0
        ELSE TRUE

RuleLabel(k, r) ==
    LET s == count_strange(r.strange)
        npi == r.n_pi_minus + r.n_pi_plus
    IN  IF k = 1 THEN (IF r.nu_pdg = 0 THEN "OutFV" ELSE "External")
        ELSE IF k = 2 THEN "NC"
        ELSE IF k = 3 THEN (IF s = 1 THEN "CCS1" ELSE "CCSgt1")
        ELSE IF k = 4 THEN "ECCC"
        ELSE IF k = 5
        THEN (IF npi = 0 /\ r.n_p > 0 THEN "MuCC0pi_ge1p"
              ELSE IF npi = 1 /\ r.n_pi0 = 0 THEN "MuCC1pi"
              ELSE IF r.n_pi0 > 0 \/ r.n_gamma >= 2 THEN "MuCCPi0OrGamma"
              ELSE IF npi > 1 THEN "MuCCNpi"
              ELSE "MuCCOther")
        ELSE "Unknown"

FirstMatch(r) ==
    CHOOSE k \in 1..6 :
        RuleMatches(k, r) /\ \A j \in 1..(k - 1) : ~RuleMatches(j, r)

\* C27: the channel of a simulation row is the label of the first rule of
\* the list that applies to it.
C27_FirstMatchWins ==
    (call.fn = "truth" /\ call.at # "called" /\ call.source = "MC") =>
        call.analysis_channels = RuleLabel(FirstMatch(call.row), call.row)

\* a fiducial muon-neutrino CC row with one strange particle: the
\* strangeness rule and the muon-neutrino rule apply, the earlier one wins
C27_Witness ==
    /\ call.fn = "truth" /\ call.at = "analysis_channels"
    /\ call.source = "MC"
    /\ RuleMatches(3, call.row) /\ RuleMatches(5, call.row)
    /\ FirstMatch(call.row) = 3
    /\ call.analysis_channels = "CCS1"
\* C28: no definition of Processor::run or Hub::sample names a column the
\* node already has: when Hub::sample comes to define is_training and
\* w_analysis the node has neither, and the construction of the view ends
\* without an exception of Define.
C28_NoDuplicateColumn ==
    /\ (node.at = "sample") =>
           {"is_training", "w_analysis"} \cap ColumnNames(node) = {}
    /\ (node.at = "thrown") =>
           (node.source # "MC" /\ node.slice # "None"
               /\ "w_analysis" \notin ColumnNames(node))
====
